---- MODULE Spec2Model ----
(***************************************************************************)
(* fmPromise: the call-correlation layer between a WebViewer page and the  *)
(* FileMaker host (src/src/index.ts).  The page issues performScript calls;*)
(* each gets a call id, waits for the host handle (fmProxy), registers its *)
(* continuations in callbacksById and invokes the host call-entry.  The    *)
(* host later calls fmPromise_Resolve / fmPromise_Reject with the id.      *)
(* Promise reactions are modelled as jobs of a FIFO microtask queue.       *)
(***************************************************************************)
EXTENDS Integers, Sequences, FiniteSets, TLC

\* ------------------------------------------------------------------ bounds
\* performScript invocations explored
MaxCalls == 2

\* bound on the number of times the page calls toRecords on one response
MaxToRecords == 2

\* ------------------------------------------------------------------- texts
\* A text is a sequence of characters (one-character strings); a fixed word
\* none of whose characters is special to the encodings may be written as
\* one element.
None == "none"

DigitChars == <<"0", "1", "2", "3", "4", "5", "6", "7", "8", "9">>

Digits == {DigitChars[k] : k \in 1..10}

DigitVal(ch) == (CHOOSE k \in 1..10 : DigitChars[k] = ch) - 1

\* result of a failed decode (JSON.parse throwing SyntaxError)
SyntaxError == [ok |-> FALSE]

\* a newline is written as itself
EscapeOf_RawNewline(ch) ==
    CASE ch = "\"" -> <<"\\", "\"">>
      [] ch = "\\" -> <<"\\", "\\">>
      [] OTHER -> <<ch>>

\* what JSON.stringify writes for one character of a string: the double
\* quote, the backslash and the newline are written as a backslash and a
\* letter
EscapeOf(ch) ==
    CASE ch = "\"" -> <<"\\", "\"">>
      [] ch = "\\" -> <<"\\", "\\">>
      [] ch = "\n" -> <<"\\", "n">>
      [] OTHER -> <<ch>>

\* the contents of a JSON string literal for the text s
RECURSIVE EscapeText(_)
EscapeText(s) ==
    IF s = <<>> THEN <<>> ELSE EscapeOf(Head(s)) \o EscapeText(Tail(s))

\* the string literal whose contents start at position i: the decoded
\* characters up to the closing double quote; an unknown escape, a raw
\* newline or a missing closing quote is a syntax error
RECURSIVE ScanString(_, _, _)
ScanString(text, i, acc) ==
    IF i > Len(text) THEN SyntaxError
    ELSE IF text[i] = "\"" THEN [ok |-> TRUE, val |-> acc, next |-> i + 1]
    ELSE IF text[i] = "\n" THEN SyntaxError
    ELSE IF text[i] = "\\"
        THEN IF i + 1 > Len(text) THEN SyntaxError
             ELSE IF text[i + 1] = "n"
                 THEN ScanString(text, i + 2, Append(acc, "\n"))
             ELSE IF text[i + 1] \in {"\"", "\\"}
                 THEN ScanString(text, i + 2, Append(acc, text[i + 1]))
             ELSE SyntaxError
    ELSE ScanString(text, i + 1, Append(acc, text[i]))

RECURSIVE ScanDigits(_, _)
ScanDigits(text, i) ==
    IF i <= Len(text) /\ text[i] \in Digits THEN ScanDigits(text, i + 1) ELSE i

RECURSIVE NumVal(_)
NumVal(ds) ==
    IF ds = <<>> THEN 0
    ELSE 10 * NumVal(SubSeq(ds, 1, Len(ds) - 1)) + DigitVal(ds[Len(ds)])

IsPrefixAt(lit, text, i) ==
    /\ i + Len(lit) - 1 <= Len(text)
    /\ SubSeq(text, i, i + Len(lit) - 1) = lit

\* Recursive-descent decoder for the JSON subset over the model's alphabet:
\* null, true, false, unsigned integers, strings with the escapes of EscapeOf,
\* arrays and objects, no whitespace.  The result is [ok, val, next]; values are
\* [t |-> "null"], [t |-> "bool", b], [t |-> "num", n], [t |-> "str", s],
\* [t |-> "arr", items], [t |-> "obj", keys, vals].
RECURSIVE ParseValue(_, _)
RECURSIVE ParseItems(_, _, _)
RECURSIVE ParseMembers(_, _, _, _)
ParseValue(text, i) ==
    IF i > Len(text) THEN SyntaxError
    ELSE IF IsPrefixAt(<<"n", "u", "l", "l">>, text, i)
        THEN [ok |-> TRUE, val |-> [t |-> "null"], next |-> i + 4]
    ELSE IF IsPrefixAt(<<"t", "r", "u", "e">>, text, i)
        THEN [ok |-> TRUE, val |-> [t |-> "bool", b |-> TRUE], next |-> i + 4]
    ELSE IF IsPrefixAt(<<"f", "a", "l", "s", "e">>, text, i)
        THEN [ok |-> TRUE, val |-> [t |-> "bool", b |-> FALSE], next |-> i + 5]
    ELSE IF text[i] \in Digits
        THEN LET j == ScanDigits(text, i)
             IN  IF text[i] = "0" /\ j > i + 1 THEN SyntaxError
                 ELSE [ok |-> TRUE,
                       val |-> [t |-> "num", n |-> NumVal(SubSeq(text, i, j - 1))],
                       next |-> j]
    ELSE IF text[i] = "\""
        THEN LET r == ScanString(text, i + 1, <<>>)
             IN  IF ~r.ok THEN SyntaxError
                 ELSE [ok |-> TRUE, val |-> [t |-> "str", s |-> r.val],
                       next |-> r.next]
    ELSE IF text[i] = "["
        THEN IF i + 1 <= Len(text) /\ text[i + 1] = "]"
             THEN [ok |-> TRUE, val |-> [t |-> "arr", items |-> <<>>], next |-> i + 2]
             ELSE ParseItems(text, i + 1, <<>>)
    ELSE IF text[i] = "{"
        THEN IF i + 1 <= Len(text) /\ text[i + 1] = "}"
             THEN [ok |-> TRUE,
                   val |-> [t |-> "obj", keys |-> <<>>, vals |-> <<>>],
                   next |-> i + 2]
             ELSE ParseMembers(text, i + 1, <<>>, <<>>)
    ELSE SyntaxError

ParseItems(text, i, acc) ==
    LET r == ParseValue(text, i)
    IN  IF ~r.ok \/ r.next > Len(text) THEN SyntaxError
        ELSE IF text[r.next] = ","
            THEN ParseItems(text, r.next + 1, Append(acc, r.val))
        ELSE IF text[r.next] = "]"
            THEN [ok |-> TRUE,
                  val |-> [t |-> "arr", items |-> Append(acc, r.val)],
                  next |-> r.next + 1]
        ELSE SyntaxError

ParseMembers(text, i, keys, vals) ==
    LET k == ParseValue(text, i)
    IN  IF ~k.ok \/ k.val.t # "str" \/ k.next > Len(text) \/ text[k.next] # ":"
        THEN SyntaxError
        ELSE LET r == ParseValue(text, k.next + 1)
             IN  IF ~r.ok \/ r.next > Len(text) THEN SyntaxError
                 ELSE IF text[r.next] = ","
                     THEN ParseMembers(text, r.next + 1,
                                       Append(keys, k.val.s), Append(vals, r.val))
                 ELSE IF text[r.next] = "}"
                     THEN [ok |-> TRUE,
                           val |-> [t |-> "obj", keys |-> Append(keys, k.val.s),
                                    vals |-> Append(vals, r.val)],
                           next |-> r.next + 1]
                 ELSE SyntaxError

\* JSON.parse(text): the decoded value, or SyntaxError when the text is not
\* one complete JSON value
JSONParse(text) ==
    LET r == ParseValue(text, 1)
    IN  IF r.ok /\ r.next = Len(text) + 1 THEN [ok |-> TRUE, val |-> r.val]
        ELSE SyntaxError

\* ----------------------------------------------------------- JS values
\* JavaScript values are the decoder's tagged records, plus undefined.
Undefined == [t |-> "undefined"]

JSNull == [t |-> "null"]

JSString(text) == [t |-> "str", s |-> text]

\* JavaScript truthiness, as used by `scriptParameter && ...` and `x || y`
Truthy(v) ==
    CASE v.t = "undefined" -> FALSE
      [] v.t = "null" -> FALSE
      [] v.t = "bool" -> v.b
      [] v.t = "num" -> v.n # 0
      [] v.t = "str" -> v.s # <<>>
      [] OTHER -> TRUE

\* the value of property key of a decoded value (undefined when the value
\* is not an object or has no such key; a repeated key keeps its last value)
GetProp(v, key) ==
    IF v.t = "obj" /\ \E k \in 1..Len(v.keys) : v.keys[k] = key
    THEN v.vals[CHOOSE k \in 1..Len(v.keys) :
                    /\ v.keys[k] = key
                    /\ \A m \in (k + 1)..Len(v.keys) : v.keys[m] # key]
    ELSE Undefined

RECURSIVE NumText(_)
NumText(n) ==
    IF n < 10 THEN <<DigitChars[n + 1]>>
    ELSE NumText(n \div 10) \o <<DigitChars[(n % 10) + 1]>>

\* JSON.stringify(v) for the values of the model
RECURSIVE JSONStringify(_)
RECURSIVE StringifyItems(_, _)
RECURSIVE StringifyMembers(_, _, _)
JSONStringify(v) ==
    CASE v.t = "null" -> <<"n", "u", "l", "l">>
      [] v.t = "bool" -> IF v.b THEN <<"t", "r", "u", "e">>
                         ELSE <<"f", "a", "l", "s", "e">>
      [] v.t = "num" -> NumText(v.n)
      [] v.t = "str" -> <<"\"">> \o EscapeText(v.s) \o <<"\"">>
      [] v.t = "arr" -> <<"[">> \o StringifyItems(v.items, 1) \o <<"]">>
      [] v.t = "obj" -> <<"{">> \o StringifyMembers(v.keys, v.vals, 1) \o <<"}">>

StringifyItems(items, k) ==
    IF k > Len(items) THEN <<>>
    ELSE (IF k > 1 THEN <<",">> ELSE <<>>)
         \o JSONStringify(items[k]) \o StringifyItems(items, k + 1)

StringifyMembers(keys, vals, k) ==
    IF k > Len(keys) THEN <<>>
    ELSE (IF k > 1 THEN <<",">> ELSE <<>>)
         \o <<"\"">> \o EscapeText(keys[k]) \o <<"\"", ":">>
         \o JSONStringify(vals[k])
         \o StringifyMembers(keys, vals, k + 1)

\* -------------------------------------------------------------- errors
TimeoutMessage == <<"FileMaker object not found within 5 seconds.">>

UnknownErrorMessage == <<"Unknown error">>

\* new FMPromiseError({message = 'Unknown error', code}): destructuring null
\* or undefined throws a TypeError; a missing message takes the default
FMPromiseError(errorObj) ==
    IF errorObj.t \in {"null", "undefined"} THEN [threw |-> TRUE]
    ELSE [threw |-> FALSE,
          name |-> "FMPromiseError",
          message |-> IF GetProp(errorObj, <<"m", "e", "s", "s", "a", "g", "e">>) = Undefined
                      THEN JSString(UnknownErrorMessage)
                      ELSE GetProp(errorObj, <<"m", "e", "s", "s", "a", "g", "e">>),
          code |-> GetProp(errorObj, <<"c", "o", "d", "e">>)]

\* the error the acquisition timer rejects with
HostUnavailable ==
    [threw |-> FALSE, name |-> "FMPromiseError",
     message |-> JSString(TimeoutMessage), code |-> Undefined]

\* a plain object {message: text}
MessageObject(text) ==
    [t |-> "obj", keys |-> << <<"m", "e", "s", "s", "a", "g", "e">> >>,
     vals |-> <<JSString(text)>>]

\* ------------------------------------------------------- inputs
\* values the host injects as window.FileMaker, in this order
Handles == <<"fm1", "fm2">>

HandleSet == {Handles[k] : k \in 1..Len(Handles)}

\* the values a next assignment to window.FileMaker may carry
NextHandles(current) ==
    IF current = "none" THEN {Handles[1]}
    ELSE {Handles[k + 1] : k \in {m \in 1..(Len(Handles) - 1) : Handles[m] = current}}

DefaultWebViewerName ==
    <<"fmPromiseWebViewer">>

\* the getter webViewerName: window.FMPROMISE_WEB_VIEWER_NAME when it is set
\* (no webViewerName query parameter in the page's address), else the
\* default
webViewerName(windowName) ==
    IF Truthy(windowName) THEN windowName.s ELSE DefaultWebViewerName

TxtOk == <<"o", "k">>

TxtObj == <<"{", "\"", "x", "\"", ":", "1", "}">>

TxtBad == <<"{", "x">>

TxtNull == <<"n", "u", "l", "l">>

TxtErrObj == <<"{", "\"", "c", "o", "d", "e", "\"", ":", "7", "}">>

\* texts the host passes to fmPromise_Resolve
ResultTexts == {TxtOk, TxtObj}

\* texts the host passes to fmPromise_Reject
ErrorTexts == {TxtOk, TxtNull}

DefaultOptions ==
    [alwaysReturnString |-> FALSE, runningScript |-> Undefined,
     ignoreResult |-> FALSE]

\* the (scriptName, scriptParameter, options) triples the page calls
\* performScript with; windowName is the value of
\* window.FMPROMISE_WEB_VIEWER_NAME that the call's dispatch reads
CallInputs ==
    { [scriptName |-> <<"s">>, scriptParameter |-> JSNull,
       options |-> DefaultOptions, windowName |-> Undefined],
      [scriptName |-> <<"s">>,
       scriptParameter |-> [t |-> "arr", items |-> <<[t |-> "num", n |-> 1]>>],
       options |-> [alwaysReturnString |-> TRUE,
                    runningScript |-> [t |-> "num", n |-> 5],
                    ignoreResult |-> TRUE],
       windowName |-> Undefined] }

\* ------------------------------------------------------- state
VARIABLES
    windowFileMaker,  \* value of window.FileMaker (None while unset)
    trapInstalled,    \* the accessor property defined on window is in place
    timerActive,      \* the 5 s setTimeout is scheduled and has not fired
    acquireResolved,  \* the first promise of the race has been resolved
    fmProxy,          \* the raced promise: [state, value]
    proxyWaiters,     \* calls suspended at `await fmProxy`, in order
    microtasks,       \* FIFO queue of promise reaction jobs
    lastPromiseId,    \* counter of call ids
    callbacksById,    \* the registry: call id -> continuations
    calls,            \* the performScript invocations made so far
    hostCalls,        \* invocations of the host call-entries, in order
    lastOp,           \* the entry-point invocation of the last step: an
                      \* inbound one (its text is recorded when an entry
                      \* was found) or the host call-entry it invoked
    apiErrors,        \* library calls that rejected before performScript
    polling,          \* the polling acquisition of fm-promise.js
    files,            \* development server: the file system, path -> content
    runs,             \* development server: the scaffoldModule invocations
    clients,          \* development server: responses of /events kept open
    responses         \* development server: the requests handled, in order

vars == <<windowFileMaker, trapInstalled, timerActive, acquireResolved,
          fmProxy, proxyWaiters, microtasks, lastPromiseId, callbacksById,
          calls, hostCalls, lastOp, apiErrors, polling, files, runs, clients,
          responses>>

\* the state of the development server
serverVars == <<files, runs, clients, responses>>

\* no polling acquisition is running (src/index.ts acquires by a trap)
NoPolling == [active |-> FALSE, triesLeft |-> 0, polls |-> 0, variant |-> "none"]

\* the development server has handled nothing and there is no file
ServerIdle ==
    /\ files = <<>>
    /\ runs = <<>>
    /\ clients = {}
    /\ responses = <<>>

Job(kind, c, how, v) == [job |-> kind, c |-> c, how |-> how, v |-> v]

NoSettle == [kind |-> "none"]

\* a call that was not made through evaluate or executeSql
NoLocals == [expression |-> <<>>]

\* no entry point was invoked by the last step
NoOp ==
    [op |-> "none", id |-> 0, text |-> <<>>, found |-> FALSE, threw |-> FALSE,
     ret |-> "undefined"]

\* the counter is read but not advanced once it is positive
NextPromiseId_NoIncrement(last) == IF last = 0 THEN 1 ELSE last

\* `const promiseId = ++lastPromiseId`
NextPromiseId(last) == last + 1

\* a later settlement replaces an earlier one
SettleProxy_Overwrite(p, how, v) == [state |-> how, value |-> v]

\* a promise settles at most once: the first resolve or reject wins
SettleProxy(p, how, v) ==
    IF p.state = "pending" THEN [state |-> how, value |-> v] ELSE p

\* lines 190-192: a truthy non-string parameter is JSON-encoded
SerializeParam(v) ==
    IF Truthy(v) /\ v.t # "str" THEN JSString(JSONStringify(v)) ELSE v

\* `(scriptParameter || '')`
ParamText(v) == IF Truthy(v) THEN v.s ELSE <<>>

\* every result that decodes is decoded, whatever its first character
Normalise_AlwaysDecode(text, options) ==
    IF ~options.alwaysReturnString /\ JSONParse(text).ok
    THEN JSONParse(text).val
    ELSE JSString(text)

\* the option alwaysReturnString is not consulted
Normalise_IgnoresOption(text, options) ==
    IF Len(text) > 0 /\ text[1] \in {"{", "["} /\ JSONParse(text).ok
    THEN JSONParse(text).val
    ELSE JSString(text)

\* lines 211-217: a result that starts with { or [ is decoded unless
\* alwaysReturnString is set; a failed decode keeps the string
Normalise(text, options) ==
    IF /\ ~options.alwaysReturnString
       /\ Len(text) > 0
       /\ text[1] \in {"{", "["}
       /\ JSONParse(text).ok
    THEN JSONParse(text).val
    ELSE JSString(text)

Init ==
    /\ windowFileMaker \in {None, Handles[1]}
    /\ trapInstalled = (windowFileMaker = None)
    /\ timerActive = TRUE
    /\ acquireResolved = (windowFileMaker # None)
    /\ fmProxy = [state |-> "pending", value |-> None]
    /\ proxyWaiters = <<>>
    /\ microtasks = IF windowFileMaker # None
                    THEN <<Job("raceSettle", 0, "fulfilled", windowFileMaker)>>
                    ELSE <<>>
    /\ lastPromiseId = 0
    /\ callbacksById = <<>>
    /\ calls = <<>>
    /\ hostCalls = <<>>
    /\ lastOp = NoOp
    /\ apiErrors = <<>>
    /\ polling = NoPolling
    /\ ServerIdle

\* performScript(scriptName, scriptParameter, options) is entered, by the
\* page (api = "performScript") or by the library function api: the
\* synchronous part up to `await fmProxy`
EnterPerformScript(inp, api) ==
    /\ LET promiseId == NextPromiseId(lastPromiseId)
           c == Len(calls) + 1
       IN  /\ lastPromiseId' = promiseId
           /\ calls' = Append(calls,
                  [promiseId |-> promiseId,
                   scriptName |-> inp.scriptName,
                   parameter |-> inp.scriptParameter,
                   scriptParameter |-> SerializeParam(inp.scriptParameter),
                   options |-> inp.options,
                   windowName |-> inp.windowName,
                   api |-> api,
                   apiOutcome |-> NoSettle,
                   recordsOutcome |-> NoSettle,
                   records |-> <<>>,
                   locals |-> IF "locals" \in DOMAIN inp THEN inp.locals
                              ELSE NoLocals,
                   issuedWhen |-> fmProxy.state,
                   pc |-> "awaitProxy",
                   settle |-> NoSettle,
                   outcome |-> NoSettle,
                   nResolve |-> 0,
                   nReject |-> 0])
           /\ IF fmProxy.state = "pending"
              THEN /\ proxyWaiters' = Append(proxyWaiters, c)
                   /\ UNCHANGED microtasks
              ELSE /\ microtasks' = Append(microtasks, Job("afterProxy", c, None, None))
                   /\ UNCHANGED proxyWaiters
    /\ UNCHANGED <<windowFileMaker, trapInstalled, timerActive, acquireResolved,
                   fmProxy, callbacksById, hostCalls>>
    /\ lastOp' = NoOp
    /\ UNCHANGED <<apiErrors, polling, serverVars>>

\* the page calls performScript(scriptName, scriptParameter, options)
PerformScript(inp) ==
    /\ Len(calls) < MaxCalls
    /\ EnterPerformScript(inp, "performScript")

\* the host (or anything else) assigns window.FileMaker = v
AssignFileMaker(v) ==
    /\ microtasks = <<>>
    /\ windowFileMaker' = v
    /\ IF trapInstalled /\ ~acquireResolved
       THEN /\ acquireResolved' = TRUE
            /\ microtasks' = Append(microtasks, Job("raceSettle", 0, "fulfilled", v))
       ELSE UNCHANGED <<acquireResolved, microtasks>>
    /\ UNCHANGED <<trapInstalled, timerActive, fmProxy, proxyWaiters,
                   lastPromiseId, callbacksById, calls, hostCalls>>
    /\ lastOp' = NoOp
    /\ UNCHANGED <<apiErrors, polling, serverVars>>

\* the timer fires without rejecting anything
TimeoutFires_NoReject ==
    /\ microtasks = <<>>
    /\ timerActive
    /\ timerActive' = FALSE
    /\ UNCHANGED <<windowFileMaker, trapInstalled, acquireResolved, fmProxy,
                   proxyWaiters, microtasks, lastPromiseId, callbacksById,
                   calls, hostCalls>>
    /\ lastOp' = NoOp
    /\ UNCHANGED <<apiErrors, polling, serverVars>>

\* the 5000 ms timer fires and rejects the second promise of the race
TimeoutFires ==
    /\ microtasks = <<>>
    /\ timerActive
    /\ timerActive' = FALSE
    /\ microtasks' = Append(microtasks, Job("raceSettle", 0, "rejected", None))
    /\ UNCHANGED <<windowFileMaker, trapInstalled, acquireResolved, fmProxy,
                   proxyWaiters, lastPromiseId, callbacksById, calls,
                   hostCalls>>
    /\ lastOp' = NoOp
    /\ UNCHANGED <<apiErrors, polling, serverVars>>

\* the suspended calls are resumed last first
WaiterJobs_Reversed(ws) ==
    [k \in 1..Len(ws) |-> Job("afterProxy", ws[Len(ws) + 1 - k], None, None)]

RECURSIVE WaiterJobs(_)
WaiterJobs(ws) ==
    IF ws = <<>> THEN <<>>
    ELSE <<Job("afterProxy", Head(ws), None, None)>> \o WaiterJobs(Tail(ws))

\* fmProxy is settled but the calls suspended on it are forgotten
RunRaceSettle_DropWaiters ==
    /\ microtasks # <<>>
    /\ Head(microtasks).job = "raceSettle"
    /\ fmProxy' = SettleProxy(fmProxy, Head(microtasks).how, Head(microtasks).v)
    /\ microtasks' = Tail(microtasks)
    /\ proxyWaiters' = <<>>
    /\ UNCHANGED <<windowFileMaker, trapInstalled, timerActive, acquireResolved,
                   lastPromiseId, callbacksById, calls, hostCalls>>
    /\ lastOp' = NoOp
    /\ UNCHANGED <<apiErrors, polling, serverVars>>

\* reaction of Promise.race to one of its two promises: settles fmProxy if
\* it is still pending and schedules the calls suspended on it
RunRaceSettle ==
    /\ microtasks # <<>>
    /\ Head(microtasks).job = "raceSettle"
    /\ fmProxy' = SettleProxy(fmProxy, Head(microtasks).how, Head(microtasks).v)
    /\ IF fmProxy.state = "pending"
       THEN /\ microtasks' = Tail(microtasks) \o WaiterJobs(proxyWaiters)
            /\ proxyWaiters' = <<>>
       ELSE /\ microtasks' = Tail(microtasks)
            /\ UNCHANGED proxyWaiters
    /\ UNCHANGED <<windowFileMaker, trapInstalled, timerActive, acquireResolved,
                   lastPromiseId, callbacksById, calls, hostCalls>>
    /\ lastOp' = NoOp
    /\ UNCHANGED <<apiErrors, polling, serverVars>>

\* `options.runningScript || 0`
RunningOption(options) ==
    IF Truthy(options.runningScript) THEN options.runningScript.n ELSE 0

\* the object of lines 198-200; a property whose value is undefined is not
\* written by JSON.stringify, which is modelled by leaving it out
MetaObject(call) ==
    [t |-> "obj",
     keys |-> << <<"scriptName">>,
                 <<"promiseId">>,
                 <<"webViewerName">> >>
              \o (IF call.options.ignoreResult
                  THEN << <<"ignoreResult">> >>
                  ELSE <<>>),
     vals |-> << JSString(call.scriptName),
                 [t |-> "num", n |-> call.promiseId],
                 JSString(webViewerName(call.windowName)) >>
              \o (IF call.options.ignoreResult
                  THEN << [t |-> "bool", b |-> TRUE] >>
                  ELSE <<>>)]

\* `meta + '\n' + (scriptParameter || '')`, line 201
ComboParam(call) ==
    JSONStringify(MetaObject(call)) \o <<"\n">> \o ParamText(call.scriptParameter)

\* the plain entry is invoked whatever the option
HostInvocation_AlwaysPlain(call, fm) ==
    [entry |-> "PerformScript",
     script |-> <<"f", "m", "P", "r", "o", "m", "i", "s", "e">>,
     meta |-> [scriptName |-> call.scriptName,
               promiseId |-> call.promiseId,
               webViewerName |-> webViewerName(call.windowName),
               ignoreResult |-> IF call.options.ignoreResult THEN "true"
                                ELSE "absent"],
     param |-> ParamText(call.scriptParameter),
     comboParam |-> ComboParam(call),
     option |-> <<>>,
     fm |-> fm]

\* the host call-entry invocation of lines 198-208
HostInvocation(call, fm) ==
    [entry |-> IF RunningOption(call.options) = 0 THEN "PerformScript"
               ELSE "PerformScriptWithOption",
     script |-> <<"f", "m", "P", "r", "o", "m", "i", "s", "e">>,
     meta |-> [scriptName |-> call.scriptName,
               promiseId |-> call.promiseId,
               webViewerName |-> webViewerName(call.windowName),
               ignoreResult |-> IF call.options.ignoreResult THEN "true"
                                ELSE "absent"],
     param |-> ParamText(call.scriptParameter),
     comboParam |-> ComboParam(call),
     option |-> IF RunningOption(call.options) = 0 THEN <<>>
                ELSE NumText(RunningOption(call.options)),
     fm |-> fm]

\* the handle is read from the global at the time of the dispatch
AwaitedHandle_ReadsGlobal == windowFileMaker

\* `const fm = await fmProxy`, line 194: the value fmProxy settled with
AwaitedHandle == fmProxy.value

\* every entry is removed with the entry of id n
DeleteEntry_All(reg, n) == [m \in {} |-> reg[m]]

\* the registry without the entry of id n (`delete callbacksById[n]`)
DeleteEntry(reg, n) == [m \in DOMAIN reg \ {n} |-> reg[m]]

\* the continuation `resolve` of call c is invoked with text: the call's
\* inner promise is fulfilled unless it is already settled
InvokeResolve(cs, c, text) ==
    [cs EXCEPT ![c].nResolve = @ + 1,
               ![c].settle = IF @.kind = "none"
                             THEN [kind |-> "fulfilled", text |-> text] ELSE @]

\* the continuation `reject` of call c is invoked with error
InvokeReject(cs, c, error) ==
    [cs EXCEPT ![c].nReject = @ + 1,
               ![c].settle = IF @.kind = "none"
                             THEN [kind |-> "rejected", error |-> error] ELSE @]

\* the job that resumes call c after its inner promise settled, when this
\* invocation is the one that settled it
ResumeJobs(cs, c) ==
    IF cs[c].settle.kind = "none" THEN <<Job("afterResult", c, None, None)>>
    ELSE <<>>

\* the oldest pending entry is completed instead of the entry of promiseId
_resolve_WrongEntry(reg, cs, promiseId, result) ==
    IF promiseId \in DOMAIN reg
    THEN LET m == CHOOSE k \in DOMAIN reg : \A j \in DOMAIN reg : k <= j
         IN  [reg |-> DeleteEntry(reg, m),
              cs |-> InvokeResolve(cs, reg[m].resolve, result),
              jobs |-> ResumeJobs(cs, reg[m].resolve),
              threw |-> FALSE, ret |-> "undefined"]
    ELSE [reg |-> reg, cs |-> cs, jobs |-> <<>>,
          threw |-> FALSE, ret |-> "undefined"]

\* the entry is left in the registry after its continuation was invoked
_resolve_NoDelete(reg, cs, promiseId, result) ==
    IF promiseId \in DOMAIN reg
    THEN [reg |-> reg,
          cs |-> InvokeResolve(cs, reg[promiseId].resolve, result),
          jobs |-> ResumeJobs(cs, reg[promiseId].resolve),
          threw |-> FALSE, ret |-> "undefined"]
    ELSE [reg |-> reg, cs |-> cs, jobs |-> <<>>,
          threw |-> FALSE, ret |-> "undefined"]

\* fmPromise._resolve(promiseId, result), lines 407-412; the outcome is
\* [reg, cs, jobs, found, threw, ret]
_resolve(reg, cs, promiseId, result) ==
    IF promiseId \in DOMAIN reg
    THEN [reg |-> DeleteEntry(reg, promiseId),
          cs |-> InvokeResolve(cs, reg[promiseId].resolve, result),
          jobs |-> ResumeJobs(cs, reg[promiseId].resolve),
          threw |-> FALSE, ret |-> "undefined"]
    ELSE [reg |-> reg, cs |-> cs, jobs |-> <<>>,
          threw |-> FALSE, ret |-> "undefined"]

\* lines 418-422: the error text is decoded, or wrapped as {message: text}
ErrorObject(errorString) ==
    IF JSONParse(errorString).ok THEN JSONParse(errorString).val
    ELSE MessageObject(errorString)

\* the entry is dereferenced without the guard: an unknown id throws
_reject_Unguarded(reg, cs, promiseId, errorString) ==
    IF promiseId \in DOMAIN reg /\ ~FMPromiseError(ErrorObject(errorString)).threw
    THEN [reg |-> DeleteEntry(reg, promiseId),
          cs |-> InvokeReject(cs, reg[promiseId].reject,
                              FMPromiseError(ErrorObject(errorString))),
          jobs |-> ResumeJobs(cs, reg[promiseId].reject),
          threw |-> FALSE, ret |-> "undefined"]
    ELSE [reg |-> reg, cs |-> cs, jobs |-> <<>>,
          threw |-> TRUE, ret |-> "undefined"]

\* the continuation `resolve` is invoked with the error text
_reject_Resolves(reg, cs, promiseId, errorString) ==
    IF promiseId \in DOMAIN reg
    THEN [reg |-> DeleteEntry(reg, promiseId),
          cs |-> InvokeResolve(cs, reg[promiseId].reject, errorString),
          jobs |-> ResumeJobs(cs, reg[promiseId].reject),
          threw |-> FALSE, ret |-> "undefined"]
    ELSE [reg |-> reg, cs |-> cs, jobs |-> <<>>,
          threw |-> FALSE, ret |-> "undefined"]

\* fmPromise._reject(promiseId, errorString), lines 415-427; the error
\* constructor throwing leaves the entry in place
_reject(reg, cs, promiseId, errorString) ==
    IF promiseId \in DOMAIN reg
    THEN IF FMPromiseError(ErrorObject(errorString)).threw
         THEN [reg |-> reg, cs |-> cs, jobs |-> <<>>,
               threw |-> TRUE, ret |-> "undefined"]
         ELSE [reg |-> DeleteEntry(reg, promiseId),
               cs |-> InvokeReject(cs, reg[promiseId].reject,
                                   FMPromiseError(ErrorObject(errorString))),
               jobs |-> ResumeJobs(cs, reg[promiseId].reject),
               threw |-> FALSE, ret |-> "undefined"]
    ELSE [reg |-> reg, cs |-> cs, jobs |-> <<>>,
          threw |-> FALSE, ret |-> "undefined"]

\* the error thrown by a host call-entry that fails
HostThrew ==
    [threw |-> FALSE, name |-> "Error",
     message |-> JSString(<<"PerformScript failed">>), code |-> Undefined]

\* what the host call-entry does when it is invoked: it returns and the
\* host answers later, it throws, or the host completes the call from
\* inside the invocation
HostBehaviours == {"returns", "throws", "completes"}

\* the entry is registered after the host call-entry was invoked
DispatchOutcome_RegisterLate(reg, cs, c, behaviour, text) ==
    LET id == cs[c].promiseId
        cs1 == [cs EXCEPT ![c].pc = "awaitResult"]
        r == _resolve(reg, cs1, id, text)
        late(g) == [n \in DOMAIN g \cup {id} |->
                       IF n = id THEN [resolve |-> c, reject |-> c] ELSE g[n]]
    IN  CASE behaviour = "returns" ->
                 [reg |-> late(reg), cs |-> cs1, jobs |-> <<>>, found |-> FALSE]
          [] behaviour = "throws" ->
                 [reg |-> reg,
                  cs |-> [cs1 EXCEPT ![c].settle = [kind |-> "rejected",
                                                    error |-> HostThrew]],
                  jobs |-> <<Job("afterResult", c, None, None)>>,
                  found |-> FALSE]
          [] behaviour = "completes" ->
                 [reg |-> late(r.reg), cs |-> r.cs, jobs |-> r.jobs,
                  found |-> id \in DOMAIN reg]

\* the executor of the inner promise, lines 196-208: the entry of call c is
\* registered, then the host call-entry is invoked. A throw of the
\* call-entry rejects the inner promise; a completion that the host makes
\* from inside the call-entry runs _resolve on the registry as it is then.
\* The outcome is [reg, cs, jobs, found]
DispatchOutcome(reg, cs, c, behaviour, text) ==
    LET id == cs[c].promiseId
        reg1 == [n \in DOMAIN reg \cup {id} |->
                    IF n = id THEN [resolve |-> c, reject |-> c] ELSE reg[n]]
        cs1 == [cs EXCEPT ![c].pc = "awaitResult"]
        r == _resolve(reg1, cs1, id, text)
    IN  CASE behaviour = "returns" ->
                 [reg |-> reg1, cs |-> cs1, jobs |-> <<>>, found |-> FALSE]
          [] behaviour = "throws" ->
                 [reg |-> reg1,
                  cs |-> [cs1 EXCEPT ![c].settle = [kind |-> "rejected",
                                                    error |-> HostThrew]],
                  jobs |-> <<Job("afterResult", c, None, None)>>,
                  found |-> FALSE]
          [] behaviour = "completes" ->
                 [reg |-> r.reg, cs |-> r.cs, jobs |-> r.jobs,
                  found |-> id \in DOMAIN reg1]

\* performScript resumes after `await fmProxy` (lines 194-208): with a
\* rejected fmProxy the call is rejected; otherwise the inner promise is
\* created and its executor dispatches the call to the host, which behaves
\* as `behaviour` says (completing the call with `text`)
RunAfterProxyHost(behaviour, text) ==
    /\ microtasks # <<>>
    /\ Head(microtasks).job = "afterProxy"
    /\ LET c == Head(microtasks).c
           r == DispatchOutcome(callbacksById, calls, c, behaviour, text)
       IN  IF fmProxy.state = "fulfilled"
           THEN /\ callbacksById' = r.reg
                /\ hostCalls' = Append(hostCalls, HostInvocation(calls[c], AwaitedHandle))
                /\ calls' = r.cs
                /\ microtasks' = Tail(microtasks) \o r.jobs
                /\ lastOp' = IF behaviour = "completes"
                             THEN [op |-> "_resolve", id |-> calls[c].promiseId,
                                   text |-> IF r.found THEN text ELSE <<>>,
                                   found |-> r.found,
                                   threw |-> FALSE, ret |-> "undefined"]
                             ELSE [NoOp EXCEPT
                                      !.op = hostCalls'[Len(hostCalls')].entry,
                                      !.id = calls[c].promiseId]
           ELSE /\ calls' = [calls EXCEPT
                                ![c].pc = "rejected",
                                ![c].outcome = [kind |-> "rejected",
                                                error |-> HostUnavailable]]
                /\ microtasks' = Tail(microtasks)
                /\ UNCHANGED <<callbacksById, hostCalls>>
                /\ lastOp' = NoOp
    /\ UNCHANGED <<windowFileMaker, trapInstalled, timerActive, acquireResolved,
                   fmProxy, proxyWaiters, lastPromiseId>>
    /\ UNCHANGED <<apiErrors, polling, serverVars>>

\* the same with a host call-entry that returns; the host answers later
RunAfterProxy == RunAfterProxyHost("returns", <<>>)

\* ids the host may name: every generated id and one that never is
HostIds == 1..(MaxCalls + 1)

Deliver(op, id, text, r) ==
    /\ microtasks = <<>>
    /\ callbacksById' = r.reg
    /\ calls' = r.cs
    /\ microtasks' = microtasks \o r.jobs
    /\ lastOp' = [op |-> op, id |-> id,
                  text |-> IF id \in DOMAIN callbacksById THEN text ELSE <<>>,
                  found |-> id \in DOMAIN callbacksById,
                  threw |-> r.threw, ret |-> r.ret]
    /\ UNCHANGED <<windowFileMaker, trapInstalled, timerActive, acquireResolved,
                   fmProxy, proxyWaiters, lastPromiseId, hostCalls>>
    /\ UNCHANGED <<apiErrors, polling, serverVars>>

\* the host calls window.fmPromise_Resolve(id, text)
HostResolve(id, text) ==
    Deliver("_resolve", id, text, _resolve(callbacksById, calls, id, text))

\* the host calls window.fmPromise_Reject(id, text)
HostReject(id, text) ==
    Deliver("_reject", id, text, _reject(callbacksById, calls, id, text))

\* the parameter of the error of line 277
EmptyResponse ==
    [t |-> "obj",
     keys |-> << <<"c", "o", "d", "e">>, <<"m", "e", "s", "s", "a", "g", "e">> >>,
     vals |-> << [t |-> "num", n |-> -1],
                 JSString(<<"E", "m", "p", "t", "y", " ", "d", "a", "t", "a", " ", "A", "P", "I", " ", "r", "e", "s", "p", "o", "n", "s", "e">>) >>]

\* a TypeError thrown by reading a property of null or undefined
TypeError ==
    [threw |-> FALSE, name |-> "TypeError",
     message |-> JSString(<<"T", "y", "p", "e", "E", "r", "r", "o", "r">>), code |-> Undefined]

\* `v.length`
LengthOf(v) ==
    CASE v.t = "arr" -> [t |-> "num", n |-> Len(v.items)]
      [] v.t = "str" -> [t |-> "num", n |-> Len(v.s)]
      [] OTHER -> GetProp(v, <<"l", "e", "n", "g", "t", "h">>)

\* `v[0]`
FirstOf(v) ==
    CASE v.t = "arr" -> IF v.items = <<>> THEN Undefined ELSE v.items[1]
      [] v.t = "str" -> IF v.s = <<>> THEN Undefined ELSE JSString(<<v.s[1]>>)
      [] OTHER -> GetProp(v, <<"0">>)

\* `result.messages`
MessagesOf(result) == GetProp(result, <<"m", "e", "s", "s", "a", "g", "e", "s">>)

\* a message with another code than "0" rejects with the error of an empty
\* response
CheckDataAPIResult_GenericError(result) ==
    IF \/ ~Truthy(result)
       \/ ~Truthy(MessagesOf(result))
       \/ ~Truthy(LengthOf(MessagesOf(result)))
    THEN [kind |-> "rejected", error |-> FMPromiseError(EmptyResponse)]
    ELSE IF FirstOf(MessagesOf(result)).t \in {"null", "undefined"}
    THEN [kind |-> "rejected", error |-> TypeError]
    ELSE IF GetProp(FirstOf(MessagesOf(result)), <<"c", "o", "d", "e">>) # JSString(<<"0">>)
    THEN [kind |-> "rejected", error |-> FMPromiseError(EmptyResponse)]
    ELSE [kind |-> "resolved", value |-> result]

\* an empty messages list is accepted
CheckDataAPIResult_AcceptEmptyList(result) ==
    IF ~Truthy(result) \/ ~Truthy(MessagesOf(result))
    THEN [kind |-> "rejected", error |-> FMPromiseError(EmptyResponse)]
    ELSE IF FirstOf(MessagesOf(result)).t \in {"null", "undefined"}
    THEN IF LengthOf(MessagesOf(result)) = [t |-> "num", n |-> 0]
         THEN [kind |-> "resolved", value |-> result]
         ELSE [kind |-> "rejected", error |-> TypeError]
    ELSE IF GetProp(FirstOf(MessagesOf(result)), <<"c", "o", "d", "e">>) # JSString(<<"0">>)
    THEN [kind |-> "rejected",
          error |-> FMPromiseError(FirstOf(MessagesOf(result)))]
    ELSE [kind |-> "resolved", value |-> result]

\* lines 276-281 of executeFileMakerDataAPI: what the checks on the decoded
\* result of the script make of it
CheckDataAPIResult(result) ==
    IF \/ ~Truthy(result)
       \/ ~Truthy(MessagesOf(result))
       \/ ~Truthy(LengthOf(MessagesOf(result)))
    THEN [kind |-> "rejected", error |-> FMPromiseError(EmptyResponse)]
    ELSE IF FirstOf(MessagesOf(result)).t \in {"null", "undefined"}
    THEN [kind |-> "rejected", error |-> TypeError]
    ELSE IF GetProp(FirstOf(MessagesOf(result)), <<"c", "o", "d", "e">>) # JSString(<<"0">>)
    THEN [kind |-> "rejected",
          error |-> FMPromiseError(FirstOf(MessagesOf(result)))]
    ELSE [kind |-> "resolved", value |-> result]

\* `obj[key] = val` on an object value
SetProp(obj, key, val) ==
    IF \E k \in 1..Len(obj.keys) : obj.keys[k] = key
    THEN [obj EXCEPT !.vals = [k \in 1..Len(obj.keys) |->
                                  IF obj.keys[k] = key THEN val ELSE obj.vals[k]]]
    ELSE [obj EXCEPT !.keys = Append(obj.keys, key),
                     !.vals = Append(obj.vals, val)]

\* the helper method that lines 287-314 attach to a read response
ToRecordsMethod == [t |-> "function", name |-> "toRecords"]

\* the method is attached whatever the action
AttachToRecords_Always(result, params) ==
    SetProp(result, <<"toRecords">>, ToRecordsMethod)

\* lines 284-316: `params.action || 'read'`; the response of a read gets
\* the method toRecords, any other response is returned as it is
AttachToRecords(result, params) ==
    IF (IF Truthy(GetProp(params, <<"a", "c", "t", "i", "o", "n">>))
        THEN GetProp(params, <<"a", "c", "t", "i", "o", "n">>)
        ELSE JSString(<<"r", "e", "a", "d">>)) = JSString(<<"r", "e", "a", "d">>)
    THEN SetProp(result, <<"toRecords">>, ToRecordsMethod)
    ELSE result

\* property names read by the flattening of a read response
KeyResponse == <<"r", "e", "s", "p", "o", "n", "s", "e">>
KeyData == <<"d", "a", "t", "a">>
KeyDataInfo == <<"d", "a", "t", "a", "I", "n", "f", "o">>
KeyFieldData == <<"f", "i", "e", "l", "d", "D", "a", "t", "a">>
KeyPortalData == <<"p", "o", "r", "t", "a", "l", "D", "a", "t", "a">>
KeyRecordId == <<"r", "e", "c", "o", "r", "d", "I", "d">>
KeyModId == <<"m", "o", "d", "I", "d">>
KeyFoundCount == <<"f", "o", "u", "n", "d", "C", "o", "u", "n", "t">>
KeyTotalRecordCount == <<"t", "o", "t", "a", "l", "R", "e", "c", "o", "r", "d", "C", "o", "u", "n", "t">>

EmptyObject == [t |-> "obj", keys |-> <<>>, vals |-> <<>>]

EmptyArray == [t |-> "arr", items |-> <<>>]

\* `v || d`
OrElse(v, d) == IF Truthy(v) THEN v ELSE d

\* String.prototype.startsWith and String.prototype.substring(n)
StartsWith(text, prefix) ==
    /\ Len(text) >= Len(prefix)
    /\ SubSeq(text, 1, Len(prefix)) = prefix

Substring(text, n) == SubSeq(text, n + 1, Len(text))

\* Object.defineProperties(target, {name: {value, enumerable: false, ...}}):
\* the properties are kept apart from the enumerable ones (keys, items)
DefineHidden(target, names, values) ==
    IF target.t = "arr"
    THEN [t |-> "arr", items |-> target.items, hkeys |-> names, hvals |-> values]
    ELSE [t |-> "obj", keys |-> target.keys, vals |-> target.vals,
          hkeys |-> names, hvals |-> values]

\* the loop of lines 243-251 from the k-th key of the row on
RECURSIVE CleanRow(_, _, _, _)
CleanRow(portalRow, prefix, k, cleanedRow) ==
    IF k > Len(portalRow.keys) THEN cleanedRow
    ELSE CleanRow(portalRow, prefix, k + 1,
             IF portalRow.keys[k] \in {KeyRecordId, KeyModId} THEN cleanedRow
             ELSE IF StartsWith(portalRow.keys[k], prefix)
             THEN SetProp(cleanedRow, Substring(portalRow.keys[k], Len(prefix)),
                          portalRow.vals[k])
             ELSE SetProp(cleanedRow, portalRow.keys[k], portalRow.vals[k]))

\* the row keeps its qualified field names, and recordId and modId are
\* ordinary properties
_processPortalRow_KeepQualifier(portalRow, portalName) == portalRow

\* lines 239-259: a portal row without the `portalName::` prefix in its
\* field names, recordId and modId not enumerable
_processPortalRow(portalRow, portalName) ==
    DefineHidden(CleanRow(portalRow, portalName \o <<":", ":">>, 1, EmptyObject),
                 <<KeyRecordId, KeyModId>>,
                 <<GetProp(portalRow, KeyRecordId), GetProp(portalRow, KeyModId)>>)

\* lines 291-296: every row of every portal processed, under the portal's
\* name
CleanPortalData(portalData) ==
    [t |-> "obj", keys |-> portalData.keys,
     vals |-> [k \in 1..Len(portalData.keys) |->
                  [t |-> "arr",
                   items |-> [r \in 1..Len(portalData.vals[k].items) |->
                                 _processPortalRow(portalData.vals[k].items[r],
                                                   portalData.keys[k])]]]]

\* `{...target, ...source}` from the k-th key of source on
RECURSIVE Spread(_, _, _)
Spread(target, source, k) ==
    IF source.t # "obj" \/ k > Len(source.keys) THEN target
    ELSE Spread(SetProp(target, source.keys[k], source.vals[k]), source, k + 1)

\* lines 289-305: the record made of one element of response.data
FlattenRecord(o) ==
    DefineHidden(
        Spread(Spread(EmptyObject, GetProp(o, KeyFieldData), 1),
               CleanPortalData(OrElse(GetProp(o, KeyPortalData), EmptyObject)), 1),
        <<KeyRecordId, KeyModId>>,
        <<GetProp(o, KeyRecordId), GetProp(o, KeyModId)>>)

\* line 308: `this.response.dataInfo || {foundCount: 0, totalRecordCount: 0}`
DataInfoOf(response) ==
    OrElse(GetProp(response, KeyDataInfo),
           [t |-> "obj", keys |-> <<KeyFoundCount, KeyTotalRecordCount>>,
            vals |-> <<[t |-> "num", n |-> 0], [t |-> "num", n |-> 0]>>])

\* only the total count is attached to the collection
AttachCounts_TotalOnly(arr, dataInfo) ==
    DefineHidden(arr, <<KeyTotalRecordCount>>,
                 <<GetProp(dataInfo, KeyTotalRecordCount)>>)

\* lines 309-312: both counts are attached to the collection, not enumerable
AttachCounts(arr, dataInfo) ==
    DefineHidden(arr, <<KeyFoundCount, KeyTotalRecordCount>>,
                 <<GetProp(dataInfo, KeyFoundCount),
                   GetProp(dataInfo, KeyTotalRecordCount)>>)

\* the rows of response.data are replaced by the records made of them
toRecords_InPlace(self) ==
    IF GetProp(self, KeyResponse).t \in {"undefined", "null"}
    THEN [kind |-> "threw", error |-> TypeError, self |-> self]
    ELSE LET response == GetProp(self, KeyResponse)
             responseData == OrElse(GetProp(response, KeyData), EmptyArray)
             arr == [t |-> "arr",
                     items |-> [i \in 1..Len(responseData.items) |->
                                   FlattenRecord(responseData.items[i])]]
         IN  [kind |-> "returned",
              value |-> AttachCounts(arr, DataInfoOf(response)),
              self |-> SetProp(self, KeyResponse, SetProp(response, KeyData, arr))]

\* lines 287-314: result.toRecords(); `self` is the response object as the
\* call leaves it. `this.response.data` of a result without response throws
\* a TypeError
toRecords(self) ==
    IF GetProp(self, KeyResponse).t \in {"undefined", "null"}
    THEN [kind |-> "threw", error |-> TypeError, self |-> self]
    ELSE LET response == GetProp(self, KeyResponse)
             responseData == OrElse(GetProp(response, KeyData), EmptyArray)
             arr == [t |-> "arr",
                     items |-> [i \in 1..Len(responseData.items) |->
                                   FlattenRecord(responseData.items[i])]]
         IN  [kind |-> "returned",
              value |-> AttachCounts(arr, DataInfoOf(response)),
              self |-> self]

\* performScript resumes after its inner promise settled (lines 209-220);
\* its returned promise settles, which schedules the library function
\* that awaits it
RunAfterResult ==
    /\ microtasks # <<>>
    /\ Head(microtasks).job = "afterResult"
    /\ LET c == Head(microtasks).c
       IN  calls' = [calls EXCEPT
               ![c].pc = IF calls[c].settle.kind = "fulfilled"
                         THEN "resolved" ELSE "rejected",
               ![c].outcome =
                   IF calls[c].settle.kind = "fulfilled"
                   THEN [kind |-> "resolved",
                         value |-> Normalise(calls[c].settle.text, calls[c].options)]
                   ELSE [kind |-> "rejected", error |-> calls[c].settle.error]]
    /\ microtasks' =
           Tail(microtasks)
           \o (IF calls[Head(microtasks).c].api \in {"performScript", "evaluate"}
               THEN <<>>
               ELSE <<Job("afterPerformScript", Head(microtasks).c, None, None)>>)
    /\ UNCHANGED <<windowFileMaker, trapInstalled, timerActive, acquireResolved,
                   fmProxy, proxyWaiters, lastPromiseId, callbacksById,
                   hostCalls>>
    /\ lastOp' = NoOp
    /\ UNCHANGED <<apiErrors, polling, serverVars>>

DataAPIScript ==
    <<"f", "m", "P", "r", "o", "m", "i", "s", "e", ".", "e", "x", "e", "c", "u", "t", "e", "F", "i", "l", "e", "M", "a", "k", "e", "r", "D", "a", "t", "a", "A", "P", "I">>

\* the page calls executeFileMakerDataAPI(params): the part up to
\* `await this.performScript(...)`, line 275
ExecuteFileMakerDataAPI(params) ==
    /\ Len(calls) < MaxCalls
    /\ EnterPerformScript([scriptName |-> DataAPIScript,
                           scriptParameter |-> params,
                           options |-> DefaultOptions,
                           windowName |-> Undefined],
                          "executeFileMakerDataAPI")

\* executeFileMakerDataAPI resumes after `await this.performScript(...)`
\* (lines 275-317): a rejection of performScript is passed on, a result
\* is checked and, for a read, given the method toRecords
RunAfterDataAPI ==
    /\ microtasks # <<>>
    /\ Head(microtasks).job = "afterPerformScript"
    /\ calls[Head(microtasks).c].api
           \in {"executeFileMakerDataAPI", "executeFileMakerDataAPIRecords"}
    /\ LET c == Head(microtasks).c
       IN  calls' = [calls EXCEPT
               ![c].apiOutcome =
                   IF calls[c].outcome.kind = "rejected" THEN calls[c].outcome
                   ELSE IF CheckDataAPIResult(calls[c].outcome.value).kind = "rejected"
                   THEN CheckDataAPIResult(calls[c].outcome.value)
                   ELSE [kind |-> "resolved",
                         value |-> AttachToRecords(calls[c].outcome.value,
                                                   calls[c].parameter)]]
    /\ microtasks' =
           Tail(microtasks)
           \o (IF calls[Head(microtasks).c].api = "executeFileMakerDataAPIRecords"
               THEN <<Job("afterDataAPI", Head(microtasks).c, None, None)>>
               ELSE <<>>)
    /\ UNCHANGED <<windowFileMaker, trapInstalled, timerActive, acquireResolved,
                   fmProxy, proxyWaiters, lastPromiseId, callbacksById,
                   hostCalls>>
    /\ lastOp' = NoOp
    /\ UNCHANGED <<apiErrors, polling, serverVars>>

\* an async library function throws before it calls performScript: its
\* promise is rejected and nothing else happens
RejectEarly(api, args, error) ==
    /\ Len(apiErrors) < MaxCalls
    /\ apiErrors' = Append(apiErrors, [api |-> api, args |-> args, error |-> error])
    /\ UNCHANGED <<windowFileMaker, trapInstalled, timerActive, acquireResolved,
                   fmProxy, proxyWaiters, microtasks, lastPromiseId,
                   callbacksById, calls, hostCalls, polling, serverVars>>
    /\ lastOp' = NoOp

\* every action is passed on to executeFileMakerDataAPI
RecordsArgsError_None(params) == [invalid |-> FALSE]

\* lines 325-327: `params.action && params.action !== 'read'`
RecordsArgsError(params) ==
    IF /\ Truthy(GetProp(params, <<"a", "c", "t", "i", "o", "n">>))
       /\ GetProp(params, <<"a", "c", "t", "i", "o", "n">>) # JSString(<<"r", "e", "a", "d">>)
    THEN [invalid |-> TRUE,
          error |-> FMPromiseError(MessageObject(
              <<"executeFileMakerDataAPIRecords only supports the 'read' action.">>))]
    ELSE [invalid |-> FALSE]

\* lines 323-328: the page calls executeFileMakerDataAPIRecords(params): an
\* action other than 'read' rejects the call at once, otherwise the part
\* up to `await this.executeFileMakerDataAPI(params)`
ExecuteFileMakerDataAPIRecords(params) ==
    IF RecordsArgsError(params).invalid
    THEN RejectEarly("executeFileMakerDataAPIRecords", params,
                     RecordsArgsError(params).error)
    ELSE
    /\ Len(calls) < MaxCalls
    /\ EnterPerformScript([scriptName |-> DataAPIScript,
                           scriptParameter |-> params,
                           options |-> DefaultOptions,
                           windowName |-> Undefined],
                          "executeFileMakerDataAPIRecords")

\* executeFileMakerDataAPIRecords resumes after
\* `await this.executeFileMakerDataAPI(params)` (lines 328-329): a rejection
\* is passed on, a response is asked for its records
RunAfterRecords ==
    /\ microtasks # <<>>
    /\ Head(microtasks).job = "afterDataAPI"
    /\ LET c == Head(microtasks).c
           response == calls[c].apiOutcome
       IN  calls' = [calls EXCEPT
               ![c].recordsOutcome =
                   IF response.kind = "rejected" THEN response
                   ELSE IF GetProp(response.value, <<"toRecords">>) # ToRecordsMethod
                   THEN [kind |-> "rejected", error |-> TypeError]
                   ELSE IF toRecords(response.value).kind = "threw"
                   THEN [kind |-> "rejected",
                         error |-> toRecords(response.value).error]
                   ELSE [kind |-> "resolved",
                         value |-> toRecords(response.value).value]]
    /\ microtasks' = Tail(microtasks)
    /\ UNCHANGED <<windowFileMaker, trapInstalled, timerActive, acquireResolved,
                   fmProxy, proxyWaiters, lastPromiseId, callbacksById,
                   hostCalls>>
    /\ lastOp' = NoOp
    /\ UNCHANGED <<apiErrors, polling, serverVars>>

\* the page calls toRecords() on the response that call c resolved with
\* (lines 287-314)
ToRecords(c) ==
    /\ c \in 1..Len(calls)
    /\ calls[c].apiOutcome.kind = "resolved"
    /\ GetProp(calls[c].apiOutcome.value, <<"toRecords">>) = ToRecordsMethod
    /\ Len(calls[c].records) < MaxToRecords
    /\ LET r == toRecords(calls[c].apiOutcome.value)
       IN  calls' = [calls EXCEPT
               ![c].records =
                   Append(@, IF r.kind = "threw"
                             THEN [kind |-> "threw", error |-> r.error]
                             ELSE [kind |-> "returned", value |-> r.value]),
               ![c].apiOutcome = [kind |-> "resolved", value |-> r.self]]
    /\ UNCHANGED <<windowFileMaker, trapInstalled, timerActive, acquireResolved,
                   fmProxy, proxyWaiters, microtasks, lastPromiseId,
                   callbacksById, hostCalls>>
    /\ lastOp' = NoOp
    /\ UNCHANGED <<apiErrors, polling, serverVars>>

\* Array.prototype.join
RECURSIVE Join(_, _)
Join(texts, sep) ==
    IF texts = <<>> THEN <<>>
    ELSE IF Len(texts) = 1 THEN texts[1]
    ELSE texts[1] \o sep \o Join(Tail(texts), sep)

\* line 232: `key=JSON.stringify(value)` for every entry of `letVars || {}`,
\* joined by ';'
LetBindings(letVars) ==
    Join([k \in 1..Len(OrElse(letVars, EmptyObject).keys) |->
              OrElse(letVars, EmptyObject).keys[k] \o <<"=">>
              \o JSONStringify(OrElse(letVars, EmptyObject).vals[k])],
         <<";">>)

\* the Let block is always empty
LetStatement_NoBindings(expression, letVars) ==
    <<"L", "e", "t", "(", "[">> \o <<"]", " ", ";", " ">> \o expression \o <<")">>

\* line 233: `Let([${letEx}] ; ${expression})`
LetStatement(expression, letVars) ==
    <<"L", "e", "t", "(", "[">> \o LetBindings(letVars)
    \o <<"]", " ", ";", " ">> \o expression \o <<")">>

EvaluateScript ==
    <<"f", "m", "P", "r", "o", "m", "i", "s", "e", ".", "e", "v", "a", "l", "u", "a", "t", "e">>

\* lines 231-235: evaluate(expression, letVars, options) returns the promise
\* of performScript('fmPromise.evaluate', stmt, options)
EnterEvaluate(expression, letVars, options, locals, api) ==
    EnterPerformScript([scriptName |-> EvaluateScript,
                        scriptParameter |-> JSString(LetStatement(expression, letVars)),
                        options |-> options,
                        windowName |-> Undefined,
                        locals |-> locals],
                       api)

\* the page calls evaluate(expression, letVars, options)
Evaluate(inp) ==
    /\ Len(calls) < MaxCalls
    /\ EnterEvaluate(inp.expression, inp.letVars, inp.options,
                     [expression |-> inp.expression, letVars |-> inp.letVars],
                     "evaluate")

\* the characters matched by \s in the texts of the model
Whitespace == {" ", "\n", "\t"}

\* String.prototype.replace(/\n\s*/g, ' '): every newline, with the
\* whitespace that follows it, becomes one space
RECURSIVE SkipWhitespace(_)
SkipWhitespace(text) ==
    IF text # <<>> /\ Head(text) \in Whitespace THEN SkipWhitespace(Tail(text))
    ELSE text

RECURSIVE ReplaceNewlines(_)
ReplaceNewlines(text) ==
    IF text = <<>> THEN <<>>
    ELSE IF Head(text) = "\n" THEN <<" ">> \o ReplaceNewlines(SkipWhitespace(Tail(text)))
    ELSE <<Head(text)>> \o ReplaceNewlines(Tail(text))

\* the embedded values are written into the SQL text
SqlText_Inlined(sqlOrStrings, bindings) ==
    IF sqlOrStrings.t = "template"
    THEN ReplaceNewlines(Join([k \in 1..Len(sqlOrStrings.strings) |->
                                  sqlOrStrings.strings[k]
                                  \o (IF k <= Len(bindings)
                                      THEN JSONStringify(bindings[k]) ELSE <<>>)],
                              <<>>))
    ELSE sqlOrStrings.s

\* lines 344-358: the SQL text of a tagged template is its string parts
\* joined by '?', the SQL text of the plain form is the first argument
SqlText(sqlOrStrings, bindings) ==
    IF sqlOrStrings.t = "template"
    THEN ReplaceNewlines(Join(sqlOrStrings.strings, <<"?">>))
    ELSE sqlOrStrings.s

\* line 360: ` ; ${JSON.stringify(o)}` for every binding, in order
BindingLiterals(finalBindings) ==
    Join([k \in 1..Len(finalBindings) |->
              <<" ", ";", " ">> \o JSONStringify(finalBindings[k])],
         <<>>)

\* line 364: the ExecuteSQLe expression
SqlExpression(sql, colDelim, rowDelim, finalBindings) ==
    <<"E", "x", "e", "c", "u", "t", "e", "S", "Q", "L", "e", "(">>
    \o JSONStringify(JSString(sql))
    \o <<" ", ";", " ", "\"">> \o colDelim
    \o <<"\"", " ", ";", " ", "\"">> \o rowDelim \o <<"\"">>
    \o BindingLiterals(finalBindings) \o <<")">>

\* position of the first occurrence of sep in text from position i on (0
\* when there is none)
RECURSIVE IndexOf(_, _, _)
IndexOf(text, sep, i) ==
    IF i + Len(sep) - 1 > Len(text) THEN 0
    ELSE IF SubSeq(text, i, i + Len(sep) - 1) = sep THEN i
    ELSE IndexOf(text, sep, i + 1)

\* String.prototype.split with a non-empty separator
RECURSIVE Split(_, _)
Split(text, sep) ==
    IF IndexOf(text, sep, 1) = 0 THEN <<text>>
    ELSE <<SubSeq(text, 1, IndexOf(text, sep, 1) - 1)>>
         \o Split(SubSeq(text, IndexOf(text, sep, 1) + Len(sep), Len(text)), sep)

\* an empty raw text is split like any other text
SqlRows_NoEmptyCheck(rawData, rowDelim, colDelim) ==
    IF rawData \in {JSNull, Undefined} THEN EmptyArray
    ELSE [t |-> "arr",
          items |-> [r \in 1..Len(Split(rawData.s, rowDelim)) |->
                        [t |-> "arr",
                         items |-> [k \in 1..Len(Split(Split(rawData.s, rowDelim)[r], colDelim)) |->
                                       JSString(Split(Split(rawData.s, rowDelim)[r], colDelim)[k])]]]]

\* the rows are not split into columns
SqlRows_RowsOnly(rawData, rowDelim, colDelim) ==
    IF rawData \in {JSString(<<>>), JSNull, Undefined} THEN EmptyArray
    ELSE [t |-> "arr",
          items |-> [r \in 1..Len(Split(rawData.s, rowDelim)) |->
                        [t |-> "arr",
                         items |-> << JSString(Split(rawData.s, rowDelim)[r]) >>]]]

\* lines 366-369: no rows for an empty raw text, null or undefined;
\* otherwise the raw text split on the row delimiter and every row on the
\* column delimiter
SqlRows(rawData, rowDelim, colDelim) ==
    IF rawData \in {JSString(<<>>), JSNull, Undefined} THEN EmptyArray
    ELSE [t |-> "arr",
          items |-> [r \in 1..Len(Split(rawData.s, rowDelim)) |->
                        [t |-> "arr",
                         items |-> [k \in 1..Len(Split(Split(rawData.s, rowDelim)[r], colDelim)) |->
                                       JSString(Split(Split(rawData.s, rowDelim)[r], colDelim)[k])]]]]

\* a tagged template is accepted whatever the number of its values
SqlArgsError_TemplateUnchecked(sqlOrStrings, bindings) ==
    IF sqlOrStrings.t \in {"template", "str"} THEN [invalid |-> FALSE]
    ELSE [invalid |-> TRUE,
          error |-> FMPromiseError(
              [t |-> "obj",
               keys |-> << <<"c", "o", "d", "e">>, <<"m", "e", "s", "s", "a", "g", "e">> >>,
               vals |-> << [t |-> "num", n |-> -1],
                           JSString(<<"Invalid arguments: executeSql must be called with a SQL string, or as a template literal.">>) >>])]

\* lines 344-358: the checks of the arguments of executeSql
SqlArgsError(sqlOrStrings, bindings) ==
    IF sqlOrStrings.t = "template"
    THEN IF Len(bindings) # Len(sqlOrStrings.strings) - 1
         THEN [invalid |-> TRUE,
               error |-> FMPromiseError(
                   [t |-> "obj",
                    keys |-> << <<"c", "o", "d", "e">>, <<"m", "e", "s", "s", "a", "g", "e">> >>,
                    vals |-> << [t |-> "num", n |-> -1],
                                JSString(<<"Invalid template literal for executeSql">>) >>])]
         ELSE [invalid |-> FALSE]
    ELSE IF sqlOrStrings.t = "str" THEN [invalid |-> FALSE]
    ELSE [invalid |-> TRUE,
          error |-> FMPromiseError(
              [t |-> "obj",
               keys |-> << <<"c", "o", "d", "e">>, <<"m", "e", "s", "s", "a", "g", "e">> >>,
               vals |-> << [t |-> "num", n |-> -1],
                           JSString(<<"Invalid arguments: executeSql must be called with a SQL string, or as a template literal.">>) >>])]

\* lines 340-364: the page calls executeSql as a tagged template or with a
\* SQL text; invalid arguments reject the call at once; rnd are the texts
\* of the two values of Math.random()
ExecuteSql(inp, rnd) ==
    IF SqlArgsError(inp.sqlOrStrings, inp.bindings).invalid
    THEN RejectEarly("executeSql", inp,
                     SqlArgsError(inp.sqlOrStrings, inp.bindings).error)
    ELSE
    /\ Len(calls) < MaxCalls
    /\ EnterEvaluate(
           SqlExpression(SqlText(inp.sqlOrStrings, inp.bindings),
                         <<"|">> \o rnd[1] \o <<"|">>,
                         <<"~">> \o rnd[2] \o <<"~">>,
                         inp.bindings),
           Undefined,
           [DefaultOptions EXCEPT !.alwaysReturnString = TRUE],
           [expression |-> <<>>,
            sqlOrStrings |-> inp.sqlOrStrings,
            bindings |-> inp.bindings,
            colDelim |-> <<"|">> \o rnd[1] \o <<"|">>,
            rowDelim |-> <<"~">> \o rnd[2] \o <<"~">>],
           "executeSql")

\* executeSql resumes after `await this.evaluate(...)` (lines 364-369): a
\* rejection is passed on, a raw result is split into rows
RunAfterSql ==
    /\ microtasks # <<>>
    /\ Head(microtasks).job = "afterPerformScript"
    /\ calls[Head(microtasks).c].api = "executeSql"
    /\ LET c == Head(microtasks).c
       IN  calls' = [calls EXCEPT
               ![c].apiOutcome =
                   IF calls[c].outcome.kind = "rejected" THEN calls[c].outcome
                   ELSE [kind |-> "resolved",
                         value |-> SqlRows(calls[c].outcome.value,
                                           calls[c].locals.rowDelim,
                                           calls[c].locals.colDelim)]]
    /\ microtasks' = Tail(microtasks)
    /\ UNCHANGED <<windowFileMaker, trapInstalled, timerActive, acquireResolved,
                   fmProxy, proxyWaiters, lastPromiseId, callbacksById,
                   hostCalls>>
    /\ lastOp' = NoOp
    /\ UNCHANGED <<apiErrors, polling, serverVars>>

Next ==
    \/ \E inp \in CallInputs : PerformScript(inp)
    \/ \E v \in NextHandles(windowFileMaker) : AssignFileMaker(v)
    \/ TimeoutFires
    \/ RunRaceSettle
    \/ RunAfterProxy
    \/ RunAfterResult
    \/ \E id \in HostIds, text \in ResultTexts : HostResolve(id, text)
    \/ \E id \in HostIds, text \in ErrorTexts : HostReject(id, text)

Spec == Init /\ [][Next]_vars

\* the event loop runs every queued job and every due timer
RunMicrotask == RunRaceSettle \/ RunAfterProxy \/ RunAfterResult

\* the steps of the program with a host that completes only calls it was
\* handed, with one text per entry point
LiveNext ==
    \/ \E inp \in CallInputs : PerformScript(inp)
    \/ \E v \in NextHandles(windowFileMaker) : AssignFileMaker(v)
    \/ TimeoutFires
    \/ RunRaceSettle
    \/ RunAfterProxy
    \/ RunAfterResult
    \/ \E id \in DOMAIN callbacksById : HostResolve(id, TxtOk)
    \/ \E id \in DOMAIN callbacksById : HostReject(id, TxtOk)

FairSpec ==
    Init /\ [][LiveNext]_vars /\ WF_vars(RunMicrotask) /\ WF_vars(TimeoutFires)

\* ---------------------------------------------- result normalisation
\* window.FileMaker was present at load and fmProxy has been fulfilled
ReadyInit ==
    /\ windowFileMaker = Handles[1]
    /\ trapInstalled = FALSE
    /\ timerActive = TRUE
    /\ acquireResolved = TRUE
    /\ fmProxy = [state |-> "fulfilled", value |-> Handles[1]]
    /\ proxyWaiters = <<>>
    /\ microtasks = <<>>
    /\ lastPromiseId = 0
    /\ callbacksById = <<>>
    /\ calls = <<>>
    /\ hostCalls = <<>>
    /\ lastOp = NoOp
    /\ apiErrors = <<>>
    /\ polling = NoPolling
    /\ ServerIdle

\* calls with and without alwaysReturnString
NormInputs ==
    { [scriptName |-> <<"s">>, scriptParameter |-> JSNull,
       options |-> [DefaultOptions EXCEPT !.alwaysReturnString = b],
       windowName |-> Undefined] : b \in BOOLEAN }

\* raw results: texts that start with { or [ and decode, such texts that do
\* not decode, and texts that start with another character (or with none)
NormTexts ==
    { TxtObj, <<"[", "1", "]">>, TxtBad, <<"[", "1">>, TxtOk, TxtNull,
      <<"1">>, <<>> }

\* the page calls performScript, the host completes the dispatched calls
\* with raw results
NormNext ==
    \/ \E inp \in NormInputs : PerformScript(inp)
    \/ RunAfterProxy
    \/ \E id \in DOMAIN callbacksById, text \in NormTexts : HostResolve(id, text)
    \/ RunAfterResult

NormSpec == ReadyInit /\ [][NormNext]_vars

\* ------------------------------------------- the FileMaker script fmPromise
ErrorWord == <<"E", "R", "R", "O", "R">>

\* results a called FileMaker script exits with
ScriptResults ==
    { TxtOk, TxtObj, <<>>, ErrorWord, ErrorWord \o <<":", " ", "x">>,
      <<"E", "R", "R", "O">>, <<"e", "r", "r", "o", "r">>, <<" ", "E", "R", "R", "O", "R">> }

\* the FileMaker script fmPromise, run by the host call-entry, has performed
\* the script of call id, which exited with result: a result that starts
\* with the word ERROR is handed to fmPromise_Reject, any other result to
\* fmPromise_Resolve
FmPromiseScript(id, result) ==
    IF IsPrefixAt(ErrorWord, result, 1)
    THEN HostReject(id, result)
    ELSE HostResolve(id, result)

ScriptInputs ==
    { [scriptName |-> <<"s">>, scriptParameter |-> JSNull,
       options |-> DefaultOptions, windowName |-> Undefined] }

\* the page calls performScript and the host answers through its script
ScriptNext ==
    \/ \E inp \in ScriptInputs : PerformScript(inp)
    \/ RunAfterProxy
    \/ \E id \in DOMAIN callbacksById, result \in ScriptResults :
           FmPromiseScript(id, result)
    \/ RunAfterResult

ScriptSpec == ReadyInit /\ [][ScriptNext]_vars

\* ------------------------------------------------------------ dispatch
\* a script name and a viewer name with a newline, a double quote and a
\* backslash; a parameter text with newlines
TrickyName == <<"a", "\n", "b", "\"", "c", "\\">>

TrickyViewer == <<"v", "\n", "\"", "w">>

TrickyParam == <<"x", "\n", "\n", "y", "\n">>

\* calls that differ in script name, viewer name, ignoreResult and
\* parameter text
EnvelopeInputs ==
    { [scriptName |-> name, scriptParameter |-> JSString(param),
       options |-> [DefaultOptions EXCEPT !.ignoreResult = ignore],
       windowName |-> viewer] :
          name \in {<<"s">>, TrickyName},
          param \in {<<>>, TrickyParam},
          ignore \in BOOLEAN,
          viewer \in {Undefined, JSString(TrickyViewer)} }

\* calls that differ in the kind of parameter value
ParameterInputs ==
    { [scriptName |-> <<"s">>, scriptParameter |-> v,
       options |-> DefaultOptions, windowName |-> Undefined] :
          v \in { JSNull, JSString(<<"p">>),
                  [t |-> "num", n |-> 0], [t |-> "num", n |-> 7],
                  [t |-> "bool", b |-> FALSE],
                  [t |-> "arr", items |-> <<JSString(<<"a">>)>>],
                  [t |-> "obj", keys |-> << <<"x">> >>,
                   vals |-> <<[t |-> "num", n |-> 1]>>] } }

\* calls that differ in the runningScript option
OptionInputs ==
    { [scriptName |-> <<"s">>, scriptParameter |-> JSString(<<"p">>),
       options |-> [DefaultOptions EXCEPT !.runningScript = [t |-> "num", n |-> k]],
       windowName |-> Undefined] : k \in 0..5 }

DispatchInputs == EnvelopeInputs \cup ParameterInputs \cup OptionInputs

\* the page calls performScript while the host handle is available
DispatchNext ==
    \/ \E inp \in DispatchInputs : PerformScript(inp)
    \/ RunAfterProxy

DispatchSpec == ReadyInit /\ [][DispatchNext]_vars

\* ------------------------------------------------------------ data API
\* requests the page passes to executeFileMakerDataAPI
DataAPIRequests ==
    { [t |-> "obj", keys |-> << <<"l", "a", "y", "o", "u", "t", "s">> >>,
       vals |-> << JSString(<<"L">>) >>],
      [t |-> "obj", keys |-> << <<"l", "a", "y", "o", "u", "t", "s">>, <<"a", "c", "t", "i", "o", "n">> >>,
       vals |-> << JSString(<<"L">>), JSString(<<"r", "e", "a", "d">>) >>] }

TxtNoMessages == <<"{", "}">>

TxtEmptyMessages == <<"{", "\"", "m", "e", "s", "s", "a", "g", "e", "s", "\"", ":", "[", "]", "}">>

TxtNullMessage == <<"{", "\"", "m", "e", "s", "s", "a", "g", "e", "s", "\"", ":", "[", "n", "u", "l", "l", "]", "}">>

TxtCode0 == <<"{", "\"", "m", "e", "s", "s", "a", "g", "e", "s", "\"", ":", "[", "{", "\"", "c", "o", "d", "e", "\"", ":", "\"", "0", "\"", "}", "]", "}">>

TxtCode101 ==
    <<"{", "\"", "m", "e", "s", "s", "a", "g", "e", "s", "\"", ":", "[", "{", "\"", "c", "o", "d", "e", "\"", ":", "\"", "1", "0", "1", "\"", ",", "\"", "m", "e", "s", "s", "a", "g", "e", "\"", ":", "\"", "N", "o", "\"", "}", "]", "}">>

\* results of the script fmPromise.executeFileMakerDataAPI: no result, a
\* result that is no object, an object without messages, with an empty
\* messages list, with a null message, with code "0", with code "101"
DataAPIResults ==
    { <<>>, TxtOk, TxtNoMessages, TxtEmptyMessages, TxtNullMessage,
      TxtCode0, TxtCode101 }

\* the page calls executeFileMakerDataAPI while the host handle is
\* available; the host completes or fails the dispatched calls
DataAPINext ==
    \/ \E params \in DataAPIRequests : ExecuteFileMakerDataAPI(params)
    \/ RunAfterProxy
    \/ \E id \in DOMAIN callbacksById, text \in DataAPIResults :
           HostResolve(id, text)
    \/ \E id \in DOMAIN callbacksById : HostReject(id, TxtOk)
    \/ RunAfterResult
    \/ RunAfterDataAPI

DataAPISpec == ReadyInit /\ [][DataAPINext]_vars

\* read requests and a request that is no read
RecordsRequests ==
    DataAPIRequests \cup
    { [t |-> "obj", keys |-> << <<"a", "c", "t", "i", "o", "n">> >>,
       vals |-> << JSString(<<"c", "r", "e", "a", "t", "e">>) >>] }

\* {"messages":[{"code":"0"}],"response":{"dataInfo":{"foundCount":1,"tot
\* alRecordCount":3},"data":[{"fieldData":{"a":1},"portalData":{"P":[{"P:
\* :a":2,"b":3,"recordId":"7","modId":"0"}]},"recordId":"5","modId":"1"},
\* {"fieldData":{"a":4},"recordId":"6","modId":"2"}]}}
TxtTwoRecords ==
    <<"{", "\"", "m", "e", "s", "s", "a", "g", "e", "s", "\"", ":", "[", "{",
      "\"", "c", "o", "d", "e", "\"", ":", "\"", "0", "\"", "}", "]", ",",
      "\"", "r", "e", "s", "p", "o", "n", "s", "e", "\"", ":", "{", "\"",
      "d", "a", "t", "a", "I", "n", "f", "o", "\"", ":", "{", "\"", "f", "o",
      "u", "n", "d", "C", "o", "u", "n", "t", "\"", ":", "1", ",", "\"", "t",
      "o", "t", "a", "l", "R", "e", "c", "o", "r", "d", "C", "o", "u", "n",
      "t", "\"", ":", "3", "}", ",", "\"", "d", "a", "t", "a", "\"", ":",
      "[", "{", "\"", "f", "i", "e", "l", "d", "D", "a", "t", "a", "\"", ":",
      "{", "\"", "a", "\"", ":", "1", "}", ",", "\"", "p", "o", "r", "t",
      "a", "l", "D", "a", "t", "a", "\"", ":", "{", "\"", "P", "\"", ":",
      "[", "{", "\"", "P", ":", ":", "a", "\"", ":", "2", ",", "\"", "b",
      "\"", ":", "3", ",", "\"", "r", "e", "c", "o", "r", "d", "I", "d",
      "\"", ":", "\"", "7", "\"", ",", "\"", "m", "o", "d", "I", "d", "\"",
      ":", "\"", "0", "\"", "}", "]", "}", ",", "\"", "r", "e", "c", "o",
      "r", "d", "I", "d", "\"", ":", "\"", "5", "\"", ",", "\"", "m", "o",
      "d", "I", "d", "\"", ":", "\"", "1", "\"", "}", ",", "{", "\"", "f",
      "i", "e", "l", "d", "D", "a", "t", "a", "\"", ":", "{", "\"", "a",
      "\"", ":", "4", "}", ",", "\"", "r", "e", "c", "o", "r", "d", "I", "d",
      "\"", ":", "\"", "6", "\"", ",", "\"", "m", "o", "d", "I", "d", "\"",
      ":", "\"", "2", "\"", "}", "]", "}", "}">>

\* {"messages":[{"code":"0"}],"response":{}}
TxtNoRecords == <<"{", "\"", "m", "e", "s", "s", "a", "g", "e", "s", "\"", ":", "[", "{", "\"", "c", "o", "d", "e", "\"", ":", "\"", "0", "\"", "}", "]", ",", "\"", "r", "e", "s", "p", "o", "n", "s", "e", "\"", ":", "{", "}", "}">>

\* results of a read: two records, the first with a portal P of one row;
\* a response without data and dataInfo; a result without response
RecordsResults == {TxtTwoRecords, TxtNoRecords, TxtCode0}

\* the page calls executeFileMakerDataAPI and then toRecords on the
\* responses, the host completes the dispatched calls
RecordsNext ==
    \/ \E params \in RecordsRequests : ExecuteFileMakerDataAPI(params)
    \/ RunAfterProxy
    \/ \E id \in DOMAIN callbacksById, text \in RecordsResults :
           HostResolve(id, text)
    \/ RunAfterResult
    \/ RunAfterDataAPI
    \/ \E c \in 1..Len(calls) : ToRecords(c)

RecordsSpec == ReadyInit /\ [][RecordsNext]_vars

\* the page calls executeFileMakerDataAPIRecords with read requests and
\* with requests that are no read; the host completes the dispatched calls
RecordsApiNext ==
    \/ \E params \in RecordsRequests : ExecuteFileMakerDataAPIRecords(params)
    \/ RunAfterProxy
    \/ \E id \in DOMAIN callbacksById, text \in {TxtTwoRecords, TxtCode101} :
           HostResolve(id, text)
    \/ RunAfterResult
    \/ RunAfterDataAPI
    \/ RunAfterRecords

RecordsApiSpec == ReadyInit /\ [][RecordsApiNext]_vars

\* ------------------------------------------------------------- polling
\* `let triesLeft = 100`
TriesLeft == 100

PollingMessage ==
    "No window.FileMaker object was loaded after polling timeout."

\* the handle the polling of part_009 resolves with when it gives up: its
\* PerformScript throws
MockHandle == "mock"

\* the two builds that acquire the handle by polling
PollingVariants == {"fm-promise.js", "part_009"}

\* the module of a polling build was loaded: the interval is set, the
\* handle future is pending; window.FileMaker may be populated already
PollInit ==
    /\ windowFileMaker \in {None, Handles[1]}
    /\ trapInstalled = FALSE
    /\ timerActive = FALSE
    /\ acquireResolved = FALSE
    /\ fmProxy = [state |-> "pending", value |-> None]
    /\ proxyWaiters = <<>>
    /\ microtasks = <<>>
    /\ lastPromiseId = 0
    /\ callbacksById = <<>>
    /\ calls = <<>>
    /\ hostCalls = <<>>
    /\ lastOp = NoOp
    /\ apiErrors = <<>>
    /\ \E variant \in PollingVariants :
           polling = [active |-> TRUE, triesLeft |-> TriesLeft, polls |-> 0,
                      variant |-> variant]
    /\ ServerIdle

\* the interval callback runs: a populated window.FileMaker clears the
\* interval and resolves the handle future; otherwise triesLeft is
\* decremented, and when it was 0 the interval is cleared and the build
\* gives up, fm-promise.js by rejecting (line 18), part_009 by resolving
\* with a mock handle (lines 20-24)
Poll ==
    /\ microtasks = <<>>
    /\ polling.active
    /\ IF windowFileMaker # None
       THEN /\ polling' = [polling EXCEPT !.active = FALSE, !.polls = @ + 1]
            /\ fmProxy' = SettleProxy(fmProxy, "fulfilled", windowFileMaker)
       ELSE IF polling.triesLeft > 0
       THEN /\ polling' = [polling EXCEPT !.triesLeft = @ - 1, !.polls = @ + 1]
            /\ UNCHANGED fmProxy
       ELSE /\ polling' = [polling EXCEPT !.active = FALSE,
                                          !.triesLeft = @ - 1, !.polls = @ + 1]
            /\ fmProxy' = IF polling.variant = "fm-promise.js"
                          THEN SettleProxy(fmProxy, "rejected", PollingMessage)
                          ELSE SettleProxy(fmProxy, "fulfilled", MockHandle)
    /\ UNCHANGED <<windowFileMaker, trapInstalled, timerActive, acquireResolved,
                   proxyWaiters, microtasks, lastPromiseId, callbacksById,
                   calls, hostCalls, apiErrors, serverVars>>
    /\ lastOp' = NoOp

\* the interval callback runs between assignments of the host to
\* window.FileMaker
PollNext ==
    \/ Poll
    \/ \E v \in NextHandles(windowFileMaker) : AssignFileMaker(v)

PollSpec == PollInit /\ [][PollNext]_vars

\* ---------------------------------------------------- development server
\* bound on the requests the server receives
MaxRequests == 2

\* String.prototype.endsWith
EndsWith(text, suffix) ==
    /\ Len(suffix) <= Len(text)
    /\ SubSeq(text, Len(text) - Len(suffix) + 1, Len(text)) = suffix

\* String.prototype.includes
Includes(text, sub) ==
    \E i \in 1..(Len(text) - Len(sub) + 1) : SubSeq(text, i, i + Len(sub) - 1) = sub

\* String.prototype.replace with a string pattern and '': the first
\* occurrence of sub is removed
RemoveFirst(text, sub) ==
    IF ~Includes(text, sub) THEN text
    ELSE LET i == CHOOSE k \in 1..(Len(text) - Len(sub) + 1) :
                      /\ SubSeq(text, k, k + Len(sub) - 1) = sub
                      /\ \A j \in 1..(k - 1) : SubSeq(text, j, j + Len(sub) - 1) # sub
         IN  SubSeq(text, 1, i - 1) \o SubSeq(text, i + Len(sub), Len(text))

UpperChars == <<"H", "T", "M", "L", "B">>

LowerChars == <<"h", "t", "m", "l", "b">>

\* String.prototype.toLowerCase, for the letters of the requests
ToLowerCase(text) ==
    [i \in 1..Len(text) |->
        IF \E k \in 1..Len(UpperChars) : UpperChars[k] = text[i]
        THEN LowerChars[CHOOSE k \in 1..Len(UpperChars) : UpperChars[k] = text[i]]
        ELSE text[i]]

\* position of the last '/' of a path, 0 when it has none
LastSlash(p) ==
    IF \E i \in 1..Len(p) : p[i] = "/"
    THEN CHOOSE i \in 1..Len(p) : p[i] = "/" /\ \A j \in (i + 1)..Len(p) : p[j] # "/"
    ELSE 0

\* path.dirname of a relative path without trailing slash
dirname(p) ==
    IF LastSlash(p) = 0 THEN <<".">> ELSE SubSeq(p, 1, LastSlash(p) - 1)

\* path.basename
basename(p) == SubSeq(p, LastSlash(p) + 1, Len(p))

\* path.join of two relative paths without '.' and '..' segments
join(a, b) ==
    IF a = <<>> \/ a = <<".">> THEN b
    ELSE IF a[Len(a)] = "/" THEN a \o b
    ELSE a \o <<"/">> \o b

\* the directories above a path and the path itself
Ancestors(p) == {SubSeq(p, 1, i - 1) : i \in {k \in 1..Len(p) : p[k] = "/"}} \cup {p}

DirContent == "<dir>"

UserContent == "user"

\* scaffolder.ts line 7: fs.access succeeds
fileExists_Never(fs, filePath) == FALSE

fileExists(fs, filePath) == filePath \in DOMAIN fs

\* the file system with content written to filePath
WriteFile(fs, filePath, content) ==
    [q \in DOMAIN fs \cup {filePath} |-> IF q = filePath THEN content ELSE fs[q]]

\* fs.mkdir(dir, {recursive: true})
Mkdir(fs, dir) ==
    [q \in DOMAIN fs \cup Ancestors(dir) |-> IF q \in DOMAIN fs THEN fs[q] ELSE DirContent]

\* scaffolder.ts line 36: the target directory, relative to the project root
TargetDir(htmlFilePath) == join(<<"s", "r", "c">>, dirname(htmlFilePath))

\* scaffolder.ts lines 40 and 52-56: the k-th file of a module, k = 0 for
\* tsconfig.json: its reported name, its path and the content it is made with
ScaffoldTarget(htmlFilePath, k) ==
    CASE k = 0 -> [name |-> <<"t", "s", "c", "o", "n", "f", "i", "g", ".", "j", "s", "o", "n">>, path |-> <<"t", "s", "c", "o", "n", "f", "i", "g", ".", "j", "s", "o", "n">>,
                   content |-> "tsconfigTemplate"]
      [] k = 1 -> [name |-> basename(htmlFilePath),
                   path |-> join(TargetDir(htmlFilePath), basename(htmlFilePath)),
                   content |-> "module.html"]
      [] k = 2 -> [name |-> <<"m", "a", "i", "n", ".", "t", "s">>,
                   path |-> join(TargetDir(htmlFilePath), <<"m", "a", "i", "n", ".", "t", "s">>),
                   content |-> "module.ts"]
      [] k = 3 -> [name |-> <<"s", "t", "y", "l", "e", ".", "c", "s", "s">>,
                   path |-> join(TargetDir(htmlFilePath), <<"s", "t", "y", "l", "e", ".", "c", "s", "s">>),
                   content |-> "module.css"]

MethodGET == <<"G", "E", "T">>

MethodPOST == <<"P", "O", "S", "T">>

JsonType == "application/json"

HtmlType == "text/html"

\* lines 25, 31, 44, 62, 74: new Error(`Method ${method} not allowed for ${route}.`)
MethodError(method, route) ==
    [code |-> "none",
     message |-> <<"M", "e", "t", "h", "o", "d", " ">> \o method \o <<" ", "n", "o", "t", " ", "a", "l", "l", "o", "w", "e", "d", " ", "f", "o", "r", " ">> \o route \o <<".">>]

Response(req, status, contentType, success, performed) ==
    [method |-> req.method, pathname |-> req.pathname, status |-> status,
     contentType |-> contentType, success |-> success, performed |-> performed]

\* every thrown error is answered with status 405
ErrorResponse_Always405(req, error) ==
    Response(req, 405, JsonType, "false", "none")

\* server.ts lines 110-128: the answer to a request whose handling threw
ErrorResponse(req, error) ==
    IF error.code = "ENOENT"
    THEN Response(req, 404, JsonType, "false", "none")
    ELSE IF Includes(error.message, <<"M", "e", "t", "h", "o", "d", " ", "n", "o", "t", " ", "a", "l", "l", "o", "w", "e", "d">>)
    THEN Response(req, 405, JsonType, "false", "none")
    ELSE IF \E prefix \in {<<"/", "i", "n", "i", "t">>, <<"/", "i", "n", "f", "o">>} : StartsWith(req.pathname, prefix)
    THEN Response(req, 500, JsonType, "false", "none")
    ELSE Response(req, 500, HtmlType, "absent", "none")

\* server.ts lines 63-66 and 75-78: the module path of an /init/ or /build/
\* request
ModulePath(pathname, prefix) ==
    LET modulePath == RemoveFirst(pathname, prefix)
    IN  IF EndsWith(ToLowerCase(modulePath), <<".", "h", "t", "m", "l">>) THEN modulePath
        ELSE join(modulePath, <<"i", "n", "d", "e", "x", ".", "h", "t", "m", "l">>)

\* scaffold runs that have not returned
Running == {r \in 1..Len(runs) : runs[r].pc.phase # "done"}

\* server.ts lines 16-108: a request arrives and is handled up to its answer
\* or, for a scaffolding request, up to the call of scaffoldModule; built is
\* whether the bundler succeeds
HandleRequest(req, built) ==
    /\ Len(responses) + Cardinality(Running) < MaxRequests
    /\ LET id == Len(responses) + 1
       IN
       IF req.pathname = <<"/", "p", "i", "n", "g">>
       THEN /\ responses' = Append(responses,
                  IF req.method # MethodGET
                  THEN ErrorResponse(req, MethodError(req.method, <<"/", "p", "i", "n", "g">>))
                  ELSE Response(req, 200, JsonType, "true", "pong"))
            /\ UNCHANGED <<files, runs, clients>>
       ELSE IF req.pathname = <<"/", "e", "v", "e", "n", "t", "s">>
       THEN IF req.method # MethodGET
            THEN /\ responses' = Append(responses,
                       ErrorResponse(req, MethodError(req.method, <<"/", "e", "v", "e", "n", "t", "s">>)))
                 /\ UNCHANGED <<files, runs, clients>>
            ELSE /\ responses' = Append(responses,
                       Response(req, 200, "text/event-stream", "absent", "register"))
                 /\ clients' = clients \cup {id}
                 /\ UNCHANGED <<files, runs>>
       ELSE IF StartsWith(req.pathname, <<"/", "i", "n", "f", "o", "/">>)
       THEN /\ responses' = Append(responses,
                  IF req.method # MethodGET
                  THEN ErrorResponse(req, MethodError(req.method, <<"/", "i", "n", "f", "o">>))
                  ELSE IF ~fileExists(files, join(<<"s", "r", "c">>, RemoveFirst(req.pathname, <<"/", "i", "n", "f", "o", "/">>)))
                  THEN ErrorResponse(req, [code |-> "ENOENT", message |-> <<"ENOENT: no such file or directory">>])
                  ELSE Response(req, 200, JsonType, "true", "stat"))
            /\ UNCHANGED <<files, runs, clients>>
       ELSE IF StartsWith(req.pathname, <<"/", "i", "n", "i", "t", "/">>)
       THEN IF req.method # MethodPOST
            THEN /\ responses' = Append(responses,
                       ErrorResponse(req, MethodError(req.method, <<"/", "i", "n", "i", "t">>)))
                 /\ UNCHANGED <<files, runs, clients>>
            ELSE /\ runs' = Append(runs,
                       [req |-> req,
                        htmlFilePath |-> ModulePath(req.pathname, <<"/", "i", "n", "i", "t", "/">>),
                        pc |-> [phase |-> "mkdir", k |-> 0],
                        created |-> <<>>,
                        skipped |-> <<>>,
                        before |-> files,
                        returnedBefore |-> {r \in 1..Len(runs) : runs[r].pc.phase = "done"}])
                 /\ UNCHANGED <<files, clients, responses>>
       ELSE IF StartsWith(req.pathname, <<"/", "b", "u", "i", "l", "d", "/">>)
       THEN /\ responses' = Append(responses,
                  IF req.method # MethodGET
                  THEN ErrorResponse(req, MethodError(req.method, <<"/", "b", "u", "i", "l", "d">>))
                  ELSE IF ~built
                  THEN ErrorResponse(req, [code |-> "none", message |-> <<"Vite build did not return a valid output.">>])
                  ELSE Response(req, 200, HtmlType, "absent", "build"))
            /\ UNCHANGED <<files, runs, clients>>
       ELSE /\ responses' = Append(responses, Response(req, 404, HtmlType, "absent", "none"))
            /\ UNCHANGED <<files, runs, clients>>
    /\ UNCHANGED <<windowFileMaker, trapInstalled, timerActive, acquireResolved,
                   fmProxy, proxyWaiters, microtasks, lastPromiseId,
                   callbacksById, calls, hostCalls, lastOp, apiErrors, polling>>

\* the position of scaffoldModule after its k-th file was reported
AfterTarget(k) ==
    IF k = 3 THEN [phase |-> "done", k |-> 3] ELSE [phase |-> "check", k |-> k + 1]

\* server.ts lines 68-70: the answer to a scaffolding request whose run
\* returned
ScaffoldResponses(run, pc) ==
    IF pc.phase = "done"
    THEN <<Response(run.req, 201, JsonType, "true", "scaffold")>>
    ELSE <<>>

\* scaffolder.ts lines 37-70: run r of scaffoldModule resumes after an await
\* and proceeds to its next await: the directory is made, the existence of
\* a file is checked, a file is written or copied; when the run returns the
\* server answers its request (server.ts lines 68-70)
ScaffoldStep(r) ==
    /\ r \in Running
    /\ LET run == runs[r]
           k == run.pc.k
           target == ScaffoldTarget(run.htmlFilePath, k)
       IN  CASE run.pc.phase = "mkdir" ->
                    /\ files' = Mkdir(files, TargetDir(run.htmlFilePath))
                    /\ runs' = [runs EXCEPT ![r].pc = [phase |-> "check", k |-> 0]]
                    /\ UNCHANGED responses
             [] run.pc.phase = "check" ->
                    IF fileExists(files, target.path)
                    THEN /\ runs' = [runs EXCEPT
                                ![r].skipped = Append(@, target.name),
                                ![r].pc = AfterTarget(k)]
                         /\ responses' = responses \o ScaffoldResponses(run, AfterTarget(k))
                         /\ UNCHANGED files
                    ELSE /\ runs' = [runs EXCEPT ![r].pc = [phase |-> "write", k |-> k]]
                         /\ UNCHANGED <<files, responses>>
             [] run.pc.phase = "write" ->
                    /\ files' = WriteFile(files, target.path, target.content)
                    /\ runs' = [runs EXCEPT
                           ![r].created = Append(@, target.name),
                           ![r].pc = AfterTarget(k)]
                    /\ responses' = responses \o ScaffoldResponses(run, AfterTarget(k))
    /\ UNCHANGED clients
    /\ UNCHANGED <<windowFileMaker, trapInstalled, timerActive, acquireResolved,
                   fmProxy, proxyWaiters, microtasks, lastPromiseId,
                   callbacksById, calls, hostCalls, lastOp, apiErrors, polling>>

\* server.ts lines 38-40: the connection of an event-stream client closes
ClientClose(id) ==
    /\ id \in clients
    /\ clients' = clients \ {id}
    /\ UNCHANGED <<files, runs, responses>>
    /\ UNCHANGED <<windowFileMaker, trapInstalled, timerActive, acquireResolved,
                   fmProxy, proxyWaiters, microtasks, lastPromiseId,
                   callbacksById, calls, hostCalls, lastOp, apiErrors, polling>>

\* the project directory when the server starts: no file; a tsconfig.json
\* and a module m with a main.ts, both of the user
InitialFiles ==
    { <<>>,
      (<<"s", "r", "c">> :> DirContent) @@ (<<"s", "r", "c", "/", "m">> :> DirContent)
          @@ (<<"s", "r", "c", "/", "m", "/", "m", "a", "i", "n", ".", "t", "s">> :> UserContent)
          @@ (<<"t", "s", "c", "o", "n", "f", "i", "g", ".", "j", "s", "o", "n">> :> UserContent) }

\* the server was started (server.ts lines 10-16 and 131); the browser
\* library is not involved
ServerInit ==
    /\ windowFileMaker = None
    /\ trapInstalled = FALSE
    /\ timerActive = FALSE
    /\ acquireResolved = FALSE
    /\ fmProxy = [state |-> "pending", value |-> None]
    /\ proxyWaiters = <<>>
    /\ microtasks = <<>>
    /\ lastPromiseId = 0
    /\ callbacksById = <<>>
    /\ calls = <<>>
    /\ hostCalls = <<>>
    /\ lastOp = NoOp
    /\ apiErrors = <<>>
    /\ polling = NoPolling
    /\ files \in InitialFiles
    /\ runs = <<>>
    /\ clients = {}
    /\ responses = <<>>

\* requests to every route with the method it allows and with another
\* one, and a request to no route
ServerRequests ==
    { [method |-> MethodGET, pathname |-> <<"/", "p", "i", "n", "g">>],
      [method |-> MethodPOST, pathname |-> <<"/", "p", "i", "n", "g">>],
      [method |-> MethodGET, pathname |-> <<"/", "e", "v", "e", "n", "t", "s">>],
      [method |-> MethodPOST, pathname |-> <<"/", "e", "v", "e", "n", "t", "s">>],
      [method |-> MethodGET, pathname |-> <<"/", "i", "n", "f", "o", "/", "m">>],
      [method |-> MethodPOST, pathname |-> <<"/", "i", "n", "f", "o", "/", "m">>],
      [method |-> MethodPOST, pathname |-> <<"/", "i", "n", "i", "t", "/", "m">>],
      [method |-> MethodGET, pathname |-> <<"/", "i", "n", "i", "t", "/", "m">>],
      [method |-> MethodGET, pathname |-> <<"/", "b", "u", "i", "l", "d", "/", "m">>],
      [method |-> MethodPOST, pathname |-> <<"/", "b", "u", "i", "l", "d", "/", "m">>],
      [method |-> MethodGET, pathname |-> <<"/">>] }

ServerNext ==
    \/ \E req \in ServerRequests, built \in BOOLEAN : HandleRequest(req, built)
    \/ \E r \in 1..Len(runs) : ScaffoldStep(r)
    \/ \E id \in clients : ClientClose(id)

ServerSpec == ServerInit /\ [][ServerNext]_vars

\* scaffolding requests for the module m and for a second page of it
ScaffoldRequests ==
    { [method |-> MethodPOST, pathname |-> <<"/", "i", "n", "i", "t", "/", "m">>],
      [method |-> MethodPOST, pathname |-> <<"/", "i", "n", "i", "t", "/", "m", "/", "B", ".", "H", "T", "M", "L">>] }

ScaffoldNext ==
    \/ \E req \in ScaffoldRequests : HandleRequest(req, TRUE)
    \/ \E r \in 1..Len(runs) : ScaffoldStep(r)

ScaffoldSpec == ServerInit /\ [][ScaffoldNext]_vars

\* the bindings {a: "q\"", b: 2}
TwoBindings ==
    [t |-> "obj", keys |-> << <<"a">>, <<"b">> >>,
     vals |-> << JSString(<<"q", "\"">>), [t |-> "num", n |-> 2] >>]

\* evaluate with no bindings (an empty object, null), with two bindings,
\* and with options
EvalInputs ==
    { [expression |-> <<"1", "+", "1">>, letVars |-> EmptyObject,
       options |-> DefaultOptions],
      [expression |-> <<"9">>, letVars |-> JSNull,
       options |-> [DefaultOptions EXCEPT !.alwaysReturnString = TRUE]],
      [expression |-> <<"a", "&", "b">>, letVars |-> TwoBindings,
       options |-> DefaultOptions] }

\* the page calls evaluate while the host handle is available; the host
\* completes or fails the dispatched calls
EvalNext ==
    \/ \E inp \in EvalInputs : Evaluate(inp)
    \/ RunAfterProxy
    \/ \E id \in DOMAIN callbacksById, text \in ResultTexts :
           HostResolve(id, text)
    \/ \E id \in DOMAIN callbacksById : HostReject(id, TxtOk)
    \/ RunAfterResult

EvalSpec == ReadyInit /\ [][EvalNext]_vars

\* executeSql`a=${"x"}\n b=${2}`, executeSql('c=?', "y") and executeSql('d')
SqlInputs ==
    { [sqlOrStrings |-> [t |-> "template",
                         strings |-> << <<"a", "=">>, <<"\n", " ", "b", "=">>, <<>> >>],
       bindings |-> << JSString(<<"x">>), [t |-> "num", n |-> 2] >>],
      [sqlOrStrings |-> JSString(<<"c", "=", "?">>),
       bindings |-> << JSString(<<"y">>) >>],
      [sqlOrStrings |-> JSString(<<"d">>), bindings |-> <<>>] }

\* texts of the values of Math.random(), as pairs (column, row)
RandomTexts ==
    { << <<"0", ".", "1">>, <<"0", ".", "7">> >>,
      << <<"0", ".", "7">>, <<"0", ".", "7">> >> }

\* tables of the SQL engine: no row, two rows of two columns the last of
\* which is empty, one row of one column
SqlTables ==
    { <<>>,
      << << <<"a">>, <<"b">> >>, << <<"c">>, <<>> >> >>,
      << << <<"x", "y">> >> >> }

\* the text that ExecuteSQLe makes of a table with the delimiters it was
\* handed
TableText(table, colDelim, rowDelim) ==
    Join([r \in 1..Len(table) |-> Join(table[r], colDelim)], rowDelim)

\* the text that the SQL engine returns for a query it cannot run
SqlErrorText == <<"?", " ", "ERROR">>

\* the host script evaluates the expression of call id and completes the
\* call with the table's text
SqlAnswer(id, table) ==
    \E c \in 1..Len(calls) :
        /\ calls[c].promiseId = id
        /\ calls[c].api = "executeSql"
        /\ HostResolve(id, TableText(table, calls[c].locals.colDelim,
                                     calls[c].locals.rowDelim))

\* the page calls executeSql while the host handle is available; the host
\* completes the dispatched calls with a table or with the error text, or
\* fails them
SqlNext ==
    \/ \E inp \in SqlInputs, rnd \in RandomTexts : ExecuteSql(inp, rnd)
    \/ RunAfterProxy
    \/ \E id \in DOMAIN callbacksById, table \in SqlTables : SqlAnswer(id, table)
    \/ \E id \in DOMAIN callbacksById : HostResolve(id, SqlErrorText)
    \/ \E id \in DOMAIN callbacksById : HostReject(id, TxtOk)
    \/ RunAfterResult
    \/ RunAfterSql

SqlSpec == ReadyInit /\ [][SqlNext]_vars

\* the page calls performScript while the host handle is available; the
\* host completes or fails any id, in any order
RegistryNext ==
    \/ \E inp \in CallInputs : PerformScript(inp)
    \/ RunAfterProxy
    \/ \E id \in HostIds : HostResolve(id, TxtOk)
    \/ \E id \in HostIds, text \in ErrorTexts : HostReject(id, text)
    \/ RunAfterResult

RegistrySpec == ReadyInit /\ [][RegistryNext]_vars

\* requests of every action: none, read, create, metaData, update, delete,
\* duplicate
ActionRequests ==
    DataAPIRequests \cup
    { [t |-> "obj", keys |-> << <<"a", "c", "t", "i", "o", "n">> >>,
       vals |-> << JSString(action) >>] :
          action \in { <<"c", "r", "e", "a", "t", "e">>,
                       <<"m", "e", "t", "a", "D", "a", "t", "a">>,
                       <<"u", "p", "d", "a", "t", "e">>,
                       <<"d", "e", "l", "e", "t", "e">>,
                       <<"d", "u", "p", "l", "i", "c", "a", "t", "e">> } }

\* the page calls executeFileMakerDataAPI with requests of every action,
\* the host completes the dispatched calls
ActionNext ==
    \/ \E params \in ActionRequests : ExecuteFileMakerDataAPI(params)
    \/ RunAfterProxy
    \/ \E id \in DOMAIN callbacksById : HostResolve(id, TxtNoRecords)
    \/ RunAfterResult
    \/ RunAfterDataAPI

ActionSpec == ReadyInit /\ [][ActionNext]_vars

\* the page calls performScript while the host handle is available; the
\* host call-entry returns, throws, or completes the call with TxtObj from
\* inside its invocation; the host completes or fails any id later
HostNext ==
    \/ \E inp \in ScriptInputs : PerformScript(inp)
    \/ \E behaviour \in HostBehaviours : RunAfterProxyHost(behaviour, TxtObj)
    \/ \E id \in HostIds : HostResolve(id, TxtOk)
    \/ \E id \in HostIds : HostReject(id, TxtOk)
    \/ RunAfterResult

HostSpec == ReadyInit /\ [][HostNext]_vars

\* executeSql with invalid arguments: a tagged template of two string parts
\* with no value and with two values, and a number as first argument
SqlBadInputs ==
    { [sqlOrStrings |-> [t |-> "template", strings |-> << <<"a", "=">>, <<>> >>],
       bindings |-> <<>>],
      [sqlOrStrings |-> [t |-> "template", strings |-> << <<"a", "=">>, <<>> >>],
       bindings |-> << JSString(<<"x">>), [t |-> "num", n |-> 2] >>],
      [sqlOrStrings |-> [t |-> "num", n |-> 5], bindings |-> <<>>] }

\* the page calls executeSql with valid and invalid arguments while the
\* host handle is available; the host completes the dispatched calls
SqlArgsNext ==
    \/ \E inp \in SqlBadInputs
                     \cup {i \in SqlInputs : i.sqlOrStrings.t = "template"} :
           ExecuteSql(inp, << <<"0", ".", "1">>, <<"0", ".", "7">> >>)
    \/ RunAfterProxy
    \/ \E id \in DOMAIN callbacksById : HostResolve(id, <<>>)
    \/ RunAfterResult
    \/ RunAfterSql

SqlArgsSpec == ReadyInit /\ [][SqlArgsNext]_vars

TypeOK ==
    /\ windowFileMaker \in HandleSet \cup {None}
    /\ trapInstalled \in BOOLEAN
    /\ timerActive \in BOOLEAN
    /\ fmProxy.state \in {"pending", "fulfilled", "rejected"}
    /\ lastPromiseId \in 0..MaxCalls
    /\ DOMAIN callbacksById \subseteq 1..lastPromiseId
    /\ Len(calls) <= MaxCalls

\* ----------------------------------------------------------------- claims
Calls == 1..Len(calls)

Settled(c) == calls[c].settle.kind # "none"

\* the step invoked an inbound entry point
Delivered == lastOp'.op \in {"_resolve", "_reject"}

\* a step that settles the inner promise of call c is a delivery naming c's
\* own id, and the promise takes the text of that delivery
OwnPayloadStep ==
    \A c \in Calls :
        (~Settled(c) /\ calls'[c].settle.kind # "none") =>
            /\ lastOp'.id = calls[c].promiseId
            /\ \/ /\ lastOp'.op = "_resolve"
                  /\ calls'[c].settle = [kind |-> "fulfilled", text |-> lastOp'.text]
               \/ /\ lastOp'.op = "_reject"
                  /\ calls'[c].settle =
                         [kind |-> "rejected",
                          error |-> FMPromiseError(ErrorObject(lastOp'.text))]

\* a settled inner promise keeps its payload
KeepPayloadStep ==
    \A c \in Calls : Settled(c) => calls'[c].settle = calls[c].settle

\* the caller's awaited result is the one derived from the call's own payload
OwnPayloadResult ==
    \A c \in Calls :
        Settled(c) =>
            /\ calls[c].pc = "resolved" =>
                   /\ calls[c].settle.kind = "fulfilled"
                   /\ calls[c].outcome =
                          [kind |-> "resolved",
                           value |-> Normalise(calls[c].settle.text, calls[c].options)]
            /\ calls[c].pc = "rejected" =>
                   /\ calls[c].settle.kind = "rejected"
                   /\ calls[c].outcome =
                          [kind |-> "rejected", error |-> calls[c].settle.error]

\* C1: whatever the number of calls in flight and the order in which the host
\* completes them (successes and failures mixed), each performScript caller's
\* awaited result is settled with the payload the host delivered for that
\* caller's own call id, never with the payload of another id.
C1_OwnPayload ==
    /\ []OwnPayloadResult
    /\ [][OwnPayloadStep /\ KeepPayloadStep]_vars

\* two calls in flight were completed in reverse order of issuance, one with
\* a success and one with a failure, and both callers have their result
C1_Witness ==
    /\ Len(calls) >= 2
    /\ calls[1].pc = "rejected" /\ calls[1].settle.kind = "rejected"
    /\ calls[2].pc = "resolved"
    /\ lastOp.op = "_reject" /\ lastOp.id = calls[1].promiseId

\* C2: every performScript invocation gets a call id strictly greater than
\* every id generated before it: ids are pairwise distinct and never reused,
\* whether the earlier call is pending, completed, failed or not dispatched.
C2_IdsIncrease ==
    /\ \A c \in Calls : \A d \in Calls :
           c < d => calls[c].promiseId < calls[d].promiseId
    /\ \A c \in Calls : calls[c].promiseId <= lastPromiseId

\* a later call was issued after an earlier one failed, next to one that was
\* never dispatched
C2_Witness ==
    /\ Len(calls) >= 2
    /\ \E c \in Calls : calls[c].pc = "rejected" /\ c < Len(calls)
    /\ \E c \in Calls : calls[c].pc = "awaitProxy"

\* a step that delivers a success for a registered id n invokes the success
\* continuation registered for n once, with the delivered text, invokes no
\* failure continuation and no continuation of another call, and removes n
ResolveOnceStep ==
    (lastOp'.op = "_resolve" /\ lastOp'.found) =>
        /\ lastOp'.id \in DOMAIN callbacksById
        /\ LET n == lastOp'.id
               c == callbacksById[n].resolve
           IN  /\ calls[c].promiseId = n
               /\ calls'[c].nResolve = calls[c].nResolve + 1
               /\ calls'[c].settle = [kind |-> "fulfilled", text |-> lastOp'.text]
               /\ \A d \in Calls : calls'[d].nReject = calls[d].nReject
               /\ \A d \in Calls \ {c} : calls'[d] = calls[d]
               /\ DOMAIN callbacksById' = DOMAIN callbacksById \ {n}

\* no call ever has more than one continuation invocation
AtMostOnce ==
    \A c \in Calls : calls[c].nResolve + calls[c].nReject <= 1

\* C3: for every call id n with a registered pending entry, a success
\* completion for n invokes the success continuation registered for n, with
\* the delivered result, exactly once, invokes no failure continuation, and
\* removes the entry for n from the registry.
C3_ResolveOnce ==
    /\ []AtMostOnce
    /\ [][ResolveOnceStep]_vars

\* a success was just delivered for a registered id while another call was
\* still pending in the registry
C3_Witness ==
    /\ lastOp.op = "_resolve" /\ lastOp.found
    /\ \E c \in Calls : calls[c].promiseId = lastOp.id /\ calls[c].nResolve = 1
    /\ callbacksById # <<>>

C5_ReportsFound ==
    lastOp.op \in {"_resolve", "_reject"} =>
        lastOp.ret = IF lastOp.found THEN "found" ELSE "not found"

\* a host-signalled failure was just delivered for a registered id
C5_Witness == lastOp.op = "_reject" /\ lastOp.found

RejectedUnavailable(c) ==
    /\ c \in Calls
    /\ calls[c].pc = "rejected"
    /\ calls[c].outcome = [kind |-> "rejected", error |-> HostUnavailable]

\* C6: if window.FileMaker never becomes available, every performScript call,
\* issued before the acquisition timeout fires or after it, eventually rejects
\* with the host-unavailable error; none stays pending forever.
C6_NeverHangs ==
    [](windowFileMaker = None) =>
        \A c \in 1..MaxCalls : [](c \in Calls => <>RejectedUnavailable(c))

\* without a host, a call issued before the timeout and a call issued after
\* it have both been rejected as host-unavailable
C6_Witness ==
    /\ windowFileMaker = None
    /\ \E c \in Calls : calls[c].issuedWhen = "pending" /\ RejectedUnavailable(c)
    /\ \E c \in Calls : calls[c].issuedWhen = "rejected" /\ RejectedUnavailable(c)

\* after the timeout, fmProxy stays rejected, no host call-entry is invoked
\* and no registry entry is added
PermanentStep ==
    fmProxy.state = "rejected" =>
        /\ fmProxy' = fmProxy
        /\ hostCalls' = hostCalls
        /\ callbacksById' = callbacksById

\* a call issued after the timeout is waiting for its continuation or has
\* been rejected as host-unavailable
LateCallsRejected ==
    \A c \in Calls :
        calls[c].issuedWhen = "rejected" =>
            \/ calls[c].pc = "awaitProxy"
            \/ RejectedUnavailable(c)

\* C7: once host-handle acquisition has timed out the failure is permanent:
\* every later performScript call rejects with the host-unavailable error,
\* invokes no host call-entry and adds no registry entry, even when
\* window.FileMaker is assigned after the timeout; acquisition is not retried.
C7_TimeoutPermanent ==
    /\ []LateCallsRejected
    /\ [][PermanentStep]_vars

\* window.FileMaker was assigned after the timeout and a call issued after
\* the timeout has been rejected
C7_Witness ==
    /\ fmProxy.state = "rejected"
    /\ windowFileMaker # None
    /\ \E c \in Calls : calls[c].issuedWhen = "rejected" /\ RejectedUnavailable(c)
    /\ hostCalls = <<>>

\* C8: once the host-handle future has resolved or has timed out, no timer
\* and no property trap installed by the acquisition remains active.
C8_Disposed ==
    fmProxy.state # "pending" => (~timerActive /\ ~trapInstalled)

\* C9: a performScript call made with ignoreResult set registers no pending
\* entry in the registry and resolves without waiting for a completion from
\* the host.
C9_IgnoreResultEager ==
    \A c \in Calls :
        calls[c].options.ignoreResult =>
            /\ calls[c].promiseId \notin DOMAIN callbacksById
            /\ calls[c].pc # "awaitResult"

\* the host call-entry has been invoked for call c
Dispatched(c) ==
    \E k \in 1..Len(hostCalls) : hostCalls[k].meta.promiseId = calls[c].promiseId

\* the host call-entries are only ever invoked on the acquired handle
DispatchAfterAcquisition ==
    /\ hostCalls # <<>> => fmProxy.state = "fulfilled"
    /\ \A k \in 1..Len(hostCalls) : hostCalls[k].fm = fmProxy.value

\* a call issued before acquisition is not rejected as host-unavailable once
\* the handle is acquired
EarlyCallsKept ==
    \A c \in Calls :
        (calls[c].issuedWhen = "pending" /\ fmProxy.state = "fulfilled") =>
            ~RejectedUnavailable(c)

\* C10: no host call-entry invocation happens before the host handle has been
\* acquired; a call issued before acquisition is held back and dispatched once
\* acquisition completes, so that, when acquisition succeeds before the
\* timeout, such a call is neither dropped nor rejected.
C10_HeldBackThenDispatched ==
    /\ []DispatchAfterAcquisition
    /\ []EarlyCallsKept
    /\ \A c \in 1..MaxCalls :
           (c \in Calls /\ calls[c].issuedWhen = "pending"
                /\ fmProxy.state = "fulfilled")
               ~> (c \in Calls /\ Dispatched(c))

\* a call issued before acquisition was dispatched after it and resolved
C10_Witness ==
    \E c \in Calls :
        /\ calls[c].issuedWhen = "pending"
        /\ Dispatched(c)
        /\ calls[c].pc = "resolved"

\* a host call-entry was invoked by the last step
DispatchStep == lastOp.op \in {"PerformScript", "PerformScriptWithOption"}

\* C11: the host handle is written at most once.  Once fmProxy is fulfilled
\* it never changes again, whatever is assigned to window.FileMaker later,
\* and every dispatch is made on the value of the first acquisition.
C11_HandleWrittenOnce ==
    /\ [](\A k \in 1..Len(hostCalls) : hostCalls[k].fm = Handles[1])
    /\ [](fmProxy.state = "fulfilled" => fmProxy.value = Handles[1])
    /\ [][fmProxy.state = "fulfilled" => fmProxy' = fmProxy]_vars

\* a call was just dispatched on the first handle although window.FileMaker
\* has been assigned a second value since
C11_Witness ==
    /\ DispatchStep
    /\ windowFileMaker = Handles[2]
    /\ fmProxy = [state |-> "fulfilled", value |-> Handles[1]]
    /\ hostCalls[Len(hostCalls)].fm = Handles[1]
\* C12: for every registered call id and every error text the host delivers
\* to the failure entry point, the entry is removed and the caller's result
\* is rejected: with the code and message of the decoded data when the text
\* decodes, and otherwise with a generic error whose message is the text.
C12_FailureRejects ==
    [][(lastOp'.op = "_reject" /\ lastOp'.id \in DOMAIN callbacksById) =>
           LET n == lastOp'.id
               c == callbacksById[n].reject
               data == JSONParse(lastOp'.text)
           IN  /\ n \notin DOMAIN callbacksById'
               /\ calls'[c].settle.kind = "rejected"
               /\ calls'[c].settle.error.name = "FMPromiseError"
               /\ IF data.ok
                  THEN /\ calls'[c].settle.error.code =
                              GetProp(data.val, <<"c", "o", "d", "e">>)
                       /\ GetProp(data.val, <<"m", "e", "s", "s", "a", "g", "e">>)
                              \in {Undefined, calls'[c].settle.error.message}
                  ELSE /\ calls'[c].settle.error.message = JSString(lastOp'.text)
                       /\ calls'[c].settle.error.code = Undefined]_vars
\* the value the claim expects for a raw result when decoding is on: the
\* structured value written out for the texts that decode, and the text
\* itself for the others
ExpectedValue(text) ==
    CASE text = TxtObj ->
             [t |-> "obj", keys |-> << <<"x">> >>, vals |-> <<[t |-> "num", n |-> 1]>>]
      [] text = <<"[", "1", "]">> ->
             [t |-> "arr", items |-> <<[t |-> "num", n |-> 1]>>]
      [] OTHER -> [t |-> "str", s |-> text]

\* call c has returned from performScript after the host completed it
Returned(c) ==
    calls[c].settle.kind = "fulfilled" /\ calls[c].pc # "awaitResult"

\* C13: without alwaysReturnString, a raw result that starts with { or [
\* and decodes reaches the caller as the decoded value; one that starts with
\* { or [ and does not decode, or starts with another character, reaches
\* the caller as the same string; the caller's result is never rejected.
C13_DecodeOrKeep ==
    \A c \in Calls :
        (Returned(c) /\ ~calls[c].options.alwaysReturnString) =>
            /\ calls[c].outcome.kind = "resolved"
            /\ calls[c].outcome.value = ExpectedValue(calls[c].settle.text)

\* one caller got a decoded object, another got back the string {x that
\* failed to decode
C13_Witness ==
    /\ \E c \in Calls :
           /\ Returned(c) /\ ~calls[c].options.alwaysReturnString
           /\ calls[c].settle.text = TxtObj
           /\ calls[c].outcome.value.t = "obj"
    /\ \E c \in Calls :
           /\ Returned(c) /\ ~calls[c].options.alwaysReturnString
           /\ calls[c].settle.text = TxtBad
           /\ calls[c].outcome.value = JSString(TxtBad)

\* C14: with alwaysReturnString the caller receives exactly the raw text
\* the host delivered, also when it starts with { or [ and is valid JSON.
C14_AlwaysString ==
    \A c \in Calls :
        (Returned(c) /\ calls[c].options.alwaysReturnString) =>
            calls[c].outcome = [kind |-> "resolved",
                                value |-> [t |-> "str", s |-> calls[c].settle.text]]

\* a caller that asked for a string got the text of a valid JSON object
C14_Witness ==
    \E c \in Calls :
        /\ Returned(c) /\ calls[c].options.alwaysReturnString
        /\ calls[c].settle.text = TxtObj
        /\ calls[c].outcome.value = JSString(TxtObj)
\* the caller of call c was rejected with a generic error whose message is
\* text
RejectedWith(c, text) ==
    /\ calls[c].pc = "rejected"
    /\ calls[c].outcome.kind = "rejected"
    /\ calls[c].outcome.error.message = JSString(text)

InvocationsOf(c) ==
    {k \in 1..Len(hostCalls) : hostCalls[k].meta.promiseId = calls[c].promiseId}

\* position of the first newline of text (Len(text) + 1 when it has none)
FirstNewline(text) ==
    IF \E i \in 1..Len(text) : text[i] = "\n"
    THEN CHOOSE i \in 1..Len(text) :
             text[i] = "\n" /\ \A j \in 1..(i - 1) : text[j] # "\n"
    ELSE Len(text) + 1

\* the envelope e, split at its first newline, gives the metadata of call c
\* and the text param
SplitsInto(e, c, param) ==
    LET i == FirstNewline(e)
        meta == JSONParse(SubSeq(e, 1, i - 1))
    IN  /\ i <= Len(e)
        /\ meta.ok
        /\ meta.val.t = "obj"
        /\ GetProp(meta.val, <<"scriptName">>)
               = [t |-> "str", s |-> calls[c].scriptName]
        /\ GetProp(meta.val, <<"promiseId">>)
               = [t |-> "num", n |-> calls[c].promiseId]
        /\ GetProp(meta.val, <<"webViewerName">>)
               = IF calls[c].windowName = Undefined
                 THEN [t |-> "str", s |-> DefaultWebViewerName]
                 ELSE calls[c].windowName
        /\ GetProp(meta.val, <<"ignoreResult">>)
               = IF calls[c].options.ignoreResult
                 THEN [t |-> "bool", b |-> TRUE] ELSE Undefined
        /\ SubSeq(e, i + 1, Len(e)) = param

\* C16: for every script name, viewer name and parameter text (newlines in
\* the parameter text included) the envelope handed to the host is the
\* metadata block, one newline, the parameter text; the metadata block has
\* no newline, so that splitting the envelope at its first newline gives
\* back the metadata and the original parameter text.
C16_EnvelopeSplits ==
    \A c \in Calls :
        calls[c].parameter.t = "str" =>
            \A k \in InvocationsOf(c) :
                SplitsInto(hostCalls[k].comboParam, c, calls[c].parameter.s)

\* a call whose script name, viewer name and parameter text contain
\* newlines, sent with ignoreResult, has been dispatched
C16_Witness ==
    \E c \in Calls :
        /\ calls[c].scriptName = TrickyName
        /\ calls[c].windowName = JSString(TrickyViewer)
        /\ calls[c].parameter = JSString(TrickyParam)
        /\ calls[c].options.ignoreResult
        /\ InvocationsOf(c) # {}

\* C17: a parameter value that is already text is sent to the host
\* unchanged as the parameter text, and every value that is not text is
\* sent as its JSON encoding.
C17_ParameterEncoded ==
    \A c \in Calls :
        \A k \in InvocationsOf(c) :
            LET e == hostCalls[k].comboParam
            IN  SubSeq(e, FirstNewline(e) + 1, Len(e))
                    = IF calls[c].parameter.t = "str" THEN calls[c].parameter.s
                      ELSE JSONStringify(calls[c].parameter)

\* C18: each dispatched call invokes exactly one host call-entry: the plain
\* entry when runningScript is absent or 0, the entry with option, passing
\* the option number as text, when runningScript is 1 to 5; both receive the
\* script name fmPromise and the same envelope.
C18_EntrySelected ==
    \A c \in Calls :
        /\ Cardinality(InvocationsOf(c))
               = IF calls[c].pc = "awaitProxy" THEN 0 ELSE 1
        /\ \A k \in InvocationsOf(c) :
               /\ hostCalls[k].script = <<"f", "m", "P", "r", "o", "m", "i", "s", "e">>
               /\ hostCalls[k].comboParam = ComboParam(calls[c])
               /\ IF calls[c].options.runningScript
                         \in {Undefined, [t |-> "num", n |-> 0]}
                  THEN /\ hostCalls[k].entry = "PerformScript"
                       /\ hostCalls[k].option = <<>>
                  ELSE /\ hostCalls[k].entry = "PerformScriptWithOption"
                       /\ hostCalls[k].option
                              = <<DigitChars[calls[c].options.runningScript.n + 1]>>

\* a call with runningScript 5 went to the entry with option, a call with
\* runningScript 0 to the plain entry
C18_Witness ==
    /\ \E k \in 1..Len(hostCalls) :
           /\ hostCalls[k].entry = "PerformScriptWithOption"
           /\ hostCalls[k].option = <<"5">>
    /\ \E c \in Calls :
           /\ calls[c].options.runningScript = [t |-> "num", n |-> 0]
           /\ \E k \in InvocationsOf(c) : hostCalls[k].entry = "PerformScript"
\* C19: there is no automatic retry.  Every performScript invocation leads
\* to at most one invocation of a host call-entry, a rejected call is never
\* dispatched again, and errors of the four kinds (host unavailable,
\* host-signalled failure, malformed envelope, application error) always
\* reject the caller's awaited result.
C19_NoRetry ==
    /\ \A c \in Calls :
           /\ Cardinality(InvocationsOf(c)) <= 1
           /\ (calls[c].outcome.kind = "rejected") =>
                  /\ \A k \in 1..Len(proxyWaiters) : proxyWaiters[k] # c
                  /\ \A k \in 1..Len(microtasks) :
                         microtasks[k].c = c => microtasks[k].job # "afterProxy"
           /\ (calls[c].pc # "awaitProxy" /\ InvocationsOf(c) = {}) =>
                  calls[c].outcome = [kind |-> "rejected", error |-> HostUnavailable]
           /\ (calls[c].pc \in {"resolved", "rejected"}
                   /\ calls[c].settle.kind = "rejected") =>
                  calls[c].outcome.kind = "rejected"
           /\ (/\ calls[c].api = "executeFileMakerDataAPI"
               /\ calls[c].apiOutcome.kind # "none"
               /\ calls[c].settle.kind = "fulfilled"
               /\ calls[c].settle.text \in
                      {<<>>, TxtNoMessages, TxtEmptyMessages, TxtCode101}) =>
                  calls[c].apiOutcome.kind = "rejected"
    /\ (lastOp.op = "_reject" /\ lastOp.found) =>
           /\ lastOp.id \notin DOMAIN callbacksById
           /\ \A c \in Calls :
                  calls[c].promiseId = lastOp.id =>
                      calls[c].settle.kind = "rejected"

\* raw results the claim calls empty: no result, a result without a
\* messages list, and a result with an empty messages list
EmptyResults == {<<>>, TxtOk, TxtNoMessages, TxtEmptyMessages}

\* executeFileMakerDataAPI call c has rejected with the error of an empty
\* response
RejectedEmpty(c) ==
    /\ calls[c].apiOutcome.kind = "rejected"
    /\ calls[c].apiOutcome.error.name = "FMPromiseError"
    /\ calls[c].apiOutcome.error.message
           = [t |-> "str", s |-> <<"E", "m", "p", "t", "y", " ", "d", "a", "t", "a", " ", "A", "P", "I", " ", "r", "e", "s", "p", "o", "n", "s", "e">>]

\* C20: executeFileMakerDataAPI dispatches the request as exactly one
\* structured call, and when the result is absent, has no messages list or
\* has an empty messages list, the call rejects with the error 'Empty data
\* API response' and returns no response.
C20_EmptyResponseRejects ==
    \A c \in Calls :
        calls[c].api = "executeFileMakerDataAPI" =>
            /\ Cardinality(InvocationsOf(c))
                   = IF calls[c].pc = "awaitProxy" THEN 0 ELSE 1
            /\ \A k \in InvocationsOf(c) :
                   /\ hostCalls[k].meta.scriptName = DataAPIScript
                   /\ hostCalls[k].param = JSONStringify(calls[c].parameter)
            /\ (/\ calls[c].pc = "resolved"
                /\ calls[c].settle.text \in EmptyResults
                /\ ~\E k \in 1..Len(microtasks) : microtasks[k].c = c)
                   => RejectedEmpty(c)

\* a data API call whose script returned an empty messages list has
\* rejected with the error of an empty response
C20_Witness ==
    \E c \in Calls :
        /\ calls[c].api = "executeFileMakerDataAPI"
        /\ InvocationsOf(c) # {}
        /\ calls[c].settle = [kind |-> "fulfilled", text |-> TxtEmptyMessages]
        /\ RejectedEmpty(c)
\* C21: with a non-empty messages list, executeFileMakerDataAPI rejects
\* with an error carrying the first message's code and message text when
\* that code is anything other than "0", and resolves with the response,
\* raising nothing, when it is "0".
C21_MessageCodeDecides ==
    \A c \in Calls :
        (/\ calls[c].api = "executeFileMakerDataAPI"
         /\ calls[c].apiOutcome.kind # "none"
         /\ calls[c].settle.kind = "fulfilled") =>
            /\ calls[c].settle.text = TxtCode101 =>
                   /\ calls[c].apiOutcome.kind = "rejected"
                   /\ calls[c].apiOutcome.error.name = "FMPromiseError"
                   /\ calls[c].apiOutcome.error.code
                          = [t |-> "str", s |-> <<"1", "0", "1">>]
                   /\ calls[c].apiOutcome.error.message
                          = [t |-> "str", s |-> <<"N", "o">>]
            /\ calls[c].settle.text = TxtCode0 =>
                   /\ calls[c].apiOutcome.kind = "resolved"
                   /\ GetProp(calls[c].apiOutcome.value, <<"m", "e", "s", "s", "a", "g", "e", "s">>)
                          = [t |-> "arr",
                             items |-> << [t |-> "obj",
                                           keys |-> << <<"c", "o", "d", "e">> >>,
                                           vals |-> << [t |-> "str", s |-> <<"0">>] >>] >>]

\* one data API call was rejected with code "101" and message "No",
\* another was resolved with its response
C21_Witness ==
    /\ \E c \in Calls :
           /\ calls[c].settle = [kind |-> "fulfilled", text |-> TxtCode101]
           /\ calls[c].apiOutcome.kind = "rejected"
           /\ calls[c].apiOutcome.error.code = [t |-> "str", s |-> <<"1", "0", "1">>]
    /\ \E c \in Calls :
           /\ calls[c].settle = [kind |-> "fulfilled", text |-> TxtCode0]
           /\ calls[c].apiOutcome.kind = "resolved"
\* the hidden identity fields of a record or a sub-record row
HiddenIds(v) ==
    [recordId |-> IF v.hkeys[1] = <<"r", "e", "c", "o", "r", "d", "I", "d">> THEN v.hvals[1] ELSE Undefined,
     modId |-> IF v.hkeys[2] = <<"m", "o", "d", "I", "d">> THEN v.hvals[2] ELSE Undefined]

\* the records that the response TxtTwoRecords flattens to: {a: 1, P: [{a: 2,
\* b: 3}]} with recordId "5" and modId "1" (the row with "7" and "0"), and
\* {a: 4} with recordId "6" and modId "2"
ExpectedFirst ==
    [t |-> "obj", keys |-> << <<"a">>, <<"P">> >>,
     vals |-> << [t |-> "num", n |-> 1],
                 [t |-> "arr",
                  items |-> << [t |-> "obj", keys |-> << <<"a">>, <<"b">> >>,
                                vals |-> << [t |-> "num", n |-> 2],
                                            [t |-> "num", n |-> 3] >>,
                                hkeys |-> << <<"r", "e", "c", "o", "r", "d", "I", "d">>, <<"m", "o", "d", "I", "d">> >>,
                                hvals |-> << [t |-> "str", s |-> <<"7">>],
                                             [t |-> "str", s |-> <<"0">>] >>] >>] >>,
     hkeys |-> << <<"r", "e", "c", "o", "r", "d", "I", "d">>, <<"m", "o", "d", "I", "d">> >>,
     hvals |-> << [t |-> "str", s |-> <<"5">>], [t |-> "str", s |-> <<"1">>] >>]

ExpectedSecond ==
    [t |-> "obj", keys |-> << <<"a">> >>, vals |-> << [t |-> "num", n |-> 4] >>,
     hkeys |-> << <<"r", "e", "c", "o", "r", "d", "I", "d">>, <<"m", "o", "d", "I", "d">> >>,
     hvals |-> << [t |-> "str", s |-> <<"6">>], [t |-> "str", s |-> <<"2">>] >>]

\* the responses that call c resolved with and toRecords was called on
Flattened(c, text) ==
    /\ calls[c].settle = [kind |-> "fulfilled", text |-> text]
    /\ calls[c].records # <<>>

ToRecordsStep(c) == Len(calls'[c].records) > Len(calls[c].records)

\* C23: toRecords is idempotent and does not change its input: every call
\* on the same response yields an equal collection, and the response (data,
\* dataInfo, messages) is the same after the call as before.
C23_Idempotent ==
    [][\A c \in Calls :
           ToRecordsStep(c) =>
               /\ calls'[c].apiOutcome = calls[c].apiOutcome
               /\ \A j, k \in 1..Len(calls'[c].records) :
                      calls'[c].records[j] = calls'[c].records[k]]_vars

\* toRecords was called twice on the response with two records
C23_Witness ==
    \E c \in Calls :
        /\ Flattened(c, TxtTwoRecords)
        /\ Len(calls[c].records) = 2
        /\ calls[c].records[2].kind = "returned"
        /\ Len(calls[c].records[2].value.items) = 2

ExpectedLet(locals) ==
    CASE locals.expression = <<"1", "+", "1">> ->
             <<"L", "e", "t", "(", "[", "]", " ", ";", " ", "1", "+", "1", ")">>
      [] locals.expression = <<"9">> ->
             <<"L", "e", "t", "(", "[", "]", " ", ";", " ", "9", ")">>
      [] locals.expression = <<"a", "&", "b">> ->
             <<"L", "e", "t", "(", "[", "a", "=", "\"", "q", "\\", "\"", "\"", ";", "b", "=", "2", "]", " ", ";", " ", "a", "&", "b", ")">>

\* C29: evaluate(expression, bindings) issues exactly one call, with the
\* script name 'fmPromise.evaluate', whose parameter is the Let block: each
\* binding as name=encoded literal, in the bindings' order, joined by ';',
\* followed by the expression; with no bindings the block is empty and the
\* expression is still dispatched.
C29_LetBlock ==
    \A c \in Calls :
        calls[c].api = "evaluate" =>
            /\ Cardinality(InvocationsOf(c))
                   = IF calls[c].pc = "awaitProxy" THEN 0 ELSE 1
            /\ \A k \in InvocationsOf(c) :
                   /\ hostCalls[k].meta.scriptName
                          = <<"f", "m", "P", "r", "o", "m", "i", "s", "e", ".", "e", "v", "a", "l", "u", "a", "t", "e">>
                   /\ hostCalls[k].param = ExpectedLet(calls[c].locals)
                   /\ SplitsInto(hostCalls[k].comboParam, c,
                                 ExpectedLet(calls[c].locals))

\* an evaluate call with two bindings and one with none were dispatched
C29_Witness ==
    /\ \E c \in Calls :
           /\ calls[c].api = "evaluate"
           /\ calls[c].locals.letVars = TwoBindings
           /\ InvocationsOf(c) # {}
    /\ \E c \in Calls :
           /\ calls[c].api = "evaluate"
           /\ calls[c].locals.letVars = [t |-> "obj", keys |-> <<>>, vals |-> <<>>]
           /\ InvocationsOf(c) # {}
\* the rows of a table as executeSql returns them
RowsOf(table) ==
    [t |-> "arr",
     items |-> [r \in 1..Len(table) |->
                   [t |-> "arr",
                    items |-> [k \in 1..Len(table[r]) |->
                                  [t |-> "str", s |-> table[r][k]]]]]]

\* executeSql call c has returned or failed, after the host completed it
\* with the text raw
SqlDone(c, raw) ==
    /\ calls[c].api = "executeSql"
    /\ calls[c].apiOutcome.kind # "none"
    /\ calls[c].settle = [kind |-> "fulfilled", text |-> raw]

\* C25: for every non-empty raw text, executeSql returns the raw text split
\* on the row delimiter and every row on the column delimiter: the text of
\* r rows of c columns built with the call's own delimiters decodes to
\* exactly those rows of column strings, in order.
C25_TabularDecode ==
    \A c \in Calls : \A table \in SqlTables :
        (/\ table # <<>>
         /\ SqlDone(c, TableText(table, calls[c].locals.colDelim,
                                 calls[c].locals.rowDelim))) =>
            /\ calls[c].apiOutcome.kind = "resolved"
            /\ calls[c].apiOutcome.value = RowsOf(table)

\* a text of two rows of two columns was decoded, with equal random values
\* in the two delimiters
C25_Witness ==
    \E c \in Calls :
        /\ SqlDone(c, <<"a">> \o calls[c].locals.colDelim \o <<"b">>
                      \o calls[c].locals.rowDelim
                      \o <<"c">> \o calls[c].locals.colDelim)
        /\ calls[c].locals.colDelim = <<"|", "0", ".", "7", "|">>
        /\ calls[c].locals.rowDelim = <<"~", "0", ".", "7", "~">>
        /\ Len(calls[c].apiOutcome.value.items) = 2

C27_ErrorMarkerRejects ==
    \A c \in Calls :
        SqlDone(c, <<"?", " ", "ERROR">>) =>
            /\ calls[c].apiOutcome.kind = "rejected"
            /\ calls[c].apiOutcome.error.message
                   = [t |-> "str", s |-> <<"?", " ", "ERROR">>]

\* the SQL text and the binding literals that executeSql sends for the
\* inputs of SqlInputs
ExpectedSql(locals) ==
    CASE locals.sqlOrStrings.t = "template" ->
             [sql |-> <<"\"", "a", "=", "?", " ", "b", "=", "?", "\"">>,
              literals |-> <<" ", ";", " ", "\"", "x", "\"", " ", ";", " ", "2">>]
      [] locals.sqlOrStrings = [t |-> "str", s |-> <<"c", "=", "?">>] ->
             [sql |-> <<"\"", "c", "=", "?", "\"">>,
              literals |-> <<" ", ";", " ", "\"", "y", "\"">>]
      [] locals.sqlOrStrings = [t |-> "str", s |-> <<"d">>] ->
             [sql |-> <<"\"", "d", "\"">>, literals |-> <<>>]

\* C28: executeSql as a tagged template with k embedded values sends an SQL
\* text with a '?' at the position of each embedded value and none of the
\* values, and the k values as positional encoded literals in the same
\* order after the two delimiters; the same holds for the plain form with
\* explicit bindings.
C28_Placeholders ==
    \A c \in Calls :
        calls[c].api = "executeSql" =>
            \A k \in InvocationsOf(c) :
                hostCalls[k].param
                    = <<"L", "e", "t", "(", "[", "]", " ", ";", " ", "E", "x", "e", "c", "u", "t", "e", "S", "Q", "L", "e", "(">>
                      \o ExpectedSql(calls[c].locals).sql
                      \o <<" ", ";", " ", "\"">> \o calls[c].locals.colDelim
                      \o <<"\"", " ", ";", " ", "\"">> \o calls[c].locals.rowDelim
                      \o <<"\"">> \o ExpectedSql(calls[c].locals).literals
                      \o <<")", ")">>

\* a tagged template with two embedded values and a plain call with one
\* binding were dispatched
C28_Witness ==
    /\ \E c \in Calls :
           /\ calls[c].api = "executeSql"
           /\ calls[c].locals.sqlOrStrings.t = "template"
           /\ Len(calls[c].locals.bindings) = 2
           /\ InvocationsOf(c) # {}
    /\ \E c \in Calls :
           /\ calls[c].api = "executeSql"
           /\ calls[c].locals.sqlOrStrings.t = "str"
           /\ Len(calls[c].locals.bindings) = 1
           /\ InvocationsOf(c) # {}
\* the entries of the ids other than n are in the registry after the step
\* as they were before it
OthersKept(n) ==
    \A k \in DOMAIN callbacksById \ {n} :
        /\ k \in DOMAIN callbacksById'
        /\ callbacksById'[k] = callbacksById[k]

\* C30: completing or failing call id n, and registering call id m, leave
\* every registry entry of another id unchanged: no other caller's result is
\* settled and no existing entry is replaced or removed; the registry never
\* holds more than one pending entry for the same id.
C30_OtherEntriesUnchanged ==
    [][/\ lastOp'.op \in {"_resolve", "_reject"} =>
              /\ OthersKept(lastOp'.id)
              /\ \A c \in Calls :
                     calls[c].promiseId # lastOp'.id =>
                         calls'[c].settle = calls[c].settle
       /\ lastOp'.op \in {"PerformScript", "PerformScriptWithOption"} =>
              /\ lastOp'.id \notin DOMAIN callbacksById
              /\ OthersKept(lastOp'.id)
              /\ \A c \in Calls : calls'[c].settle = calls[c].settle
       /\ \A j, k \in DOMAIN callbacksById' :
              j # k => callbacksById'[j].resolve # callbacksById'[k].resolve
       /\ \A k \in DOMAIN callbacksById' :
              calls'[callbacksById'[k].resolve].promiseId = k]_vars

\* a call was completed or failed while the entry of another call was
\* pending, and that entry is still pending
C30_Witness ==
    /\ lastOp.op \in {"_resolve", "_reject"}
    /\ lastOp.found
    /\ \E c \in Calls : calls[c].promiseId = lastOp.id /\ calls[c].settle.kind # "none"
    /\ \E k \in DOMAIN callbacksById :
           /\ k # lastOp.id
           /\ calls[callbacksById[k].resolve].settle.kind = "none"
\* the action named by a request of ActionRequests ("absent" when it
\* names none)
ActionOf(params) ==
    IF \E k \in 1..Len(params.keys) : params.keys[k] = <<"a", "c", "t", "i", "o", "n">>
    THEN params.vals[CHOOSE k \in 1..Len(params.keys) :
                         params.keys[k] = <<"a", "c", "t", "i", "o", "n">>].s
    ELSE <<"absent">>

\* C31: toRecords is attached to the response exactly when the request's
\* action is 'read' or absent; responses to metaData, create, update, delete
\* and duplicate requests are returned without it.
C31_AttachedForReads ==
    \A c \in Calls :
        (calls[c].api = "executeFileMakerDataAPI"
         /\ calls[c].apiOutcome.kind = "resolved") =>
            /\ ActionOf(calls[c].parameter) \in {<<"absent">>, <<"r", "e", "a", "d">>} =>
                   \E k \in 1..Len(calls[c].apiOutcome.value.keys) :
                       /\ calls[c].apiOutcome.value.keys[k] = <<"toRecords">>
                       /\ calls[c].apiOutcome.value.vals[k].t = "function"
            /\ ActionOf(calls[c].parameter)
                   \in { <<"c", "r", "e", "a", "t", "e">>,
                         <<"m", "e", "t", "a", "D", "a", "t", "a">>,
                         <<"u", "p", "d", "a", "t", "e">>,
                         <<"d", "e", "l", "e", "t", "e">>,
                         <<"d", "u", "p", "l", "i", "c", "a", "t", "e">> } =>
                   /\ \A k \in 1..Len(calls[c].apiOutcome.value.keys) :
                          calls[c].apiOutcome.value.keys[k] # <<"toRecords">>
                   /\ calls[c].apiOutcome.value = calls[c].outcome.value

\* a request without action and a metaData request were answered
C31_Witness ==
    /\ \E c \in Calls :
           /\ calls[c].apiOutcome.kind = "resolved"
           /\ ActionOf(calls[c].parameter) = <<"absent">>
    /\ \E c \in Calls :
           /\ calls[c].apiOutcome.kind = "resolved"
           /\ ActionOf(calls[c].parameter) = <<"m", "e", "t", "a", "D", "a", "t", "a">>
\* C33: the registry holds an entry for call id n only while the caller's
\* awaited result for n is unsettled: a call that rejected because the host
\* was unavailable, or because the host call-entry threw during dispatch,
\* leaves no entry for its id behind.
C33_EntryOnlyWhileUnsettled ==
    \A c \in Calls :
        (calls[c].settle.kind # "none" \/ calls[c].pc = "rejected") =>
            calls[c].promiseId \notin DOMAIN callbacksById

\* the step invokes the host call-entry and the host completes the
\* dispatched call from inside the invocation
SyncCompletion ==
    /\ Len(hostCalls') = Len(hostCalls) + 1
    /\ lastOp'.op = "_resolve"

\* C34: a completion that the host delivers synchronously, from inside the
\* host call-entry invocation that dispatches call n, is not lost: the entry
\* for n is registered before the host call-entry is invoked, so the caller
\* of n receives that result.
C34_SyncCompletionKept ==
    [][SyncCompletion =>
           /\ lastOp'.found
           /\ hostCalls'[Len(hostCalls')].meta.promiseId = lastOp'.id
           /\ \A c \in Calls :
                  calls[c].promiseId = lastOp'.id =>
                      /\ calls'[c].settle
                             = [kind |-> "fulfilled", text |-> lastOp'.text]
                      /\ lastOp'.text = TxtObj
                      /\ Len(microtasks') > 0
                      /\ microtasks'[Len(microtasks')].job = "afterResult"
                      /\ microtasks'[Len(microtasks')].c = c
           /\ lastOp'.id \notin DOMAIN callbacksById']_vars

\* a call was completed with TxtObj from inside its dispatch and has
\* returned the decoded result
C34_Witness ==
    \E c \in Calls :
        /\ calls[c].settle = [kind |-> "fulfilled", text |-> TxtObj]
        /\ calls[c].pc = "resolved"
        /\ calls[c].outcome.kind = "resolved"
        /\ calls[c].outcome.value.t = "obj"
\* C35: the host receives the outbound envelopes in strictly increasing call
\* id order, which is the order in which the calls were issued, also for
\* calls issued before the host handle was acquired and dispatched after it.
C35_DispatchInIssueOrder ==
    /\ \A j, k \in 1..Len(hostCalls) :
           j < k => hostCalls[j].meta.promiseId < hostCalls[k].meta.promiseId
    /\ \A c, d \in Calls :
           c < d => /\ calls[c].promiseId < calls[d].promiseId
                    /\ InvocationsOf(d) # {} => InvocationsOf(c) # {}

\* two calls issued before the handle was acquired were dispatched
C35_Witness ==
    /\ Len(hostCalls) = 2
    /\ \A c \in Calls : calls[c].issuedWhen = "pending"
    /\ hostCalls[1].meta.promiseId = 1
    /\ hostCalls[2].meta.promiseId = 2
\* the 5 s timer expires, or the reaction to its rejection runs
TimerStep ==
    \/ timerActive /\ ~timerActive'
    \/ /\ microtasks # <<>>
       /\ Head(microtasks).job = "raceSettle"
       /\ Head(microtasks).how = "rejected"
       /\ microtasks' # microtasks
       /\ Len(calls') = Len(calls)

\* C36: after the host handle was acquired, the later expiry of the
\* 5-second acquisition timer changes nothing: no pending call is rejected
\* by it, the registry is unchanged, and calls issued afterwards are still
\* dispatched to the host.
C36_LateExpiryHarmless ==
    [][/\ (fmProxy.state = "fulfilled" /\ TimerStep) =>
              /\ fmProxy' = fmProxy
              /\ callbacksById' = callbacksById
              /\ calls' = calls
              /\ hostCalls' = hostCalls
              /\ proxyWaiters' = proxyWaiters
       /\ \A c \in 1..Len(calls') :
              (calls'[c].issuedWhen = "fulfilled" /\ calls'[c].pc # "awaitProxy") =>
                  \E k \in 1..Len(hostCalls') :
                      hostCalls'[k].meta.promiseId = calls'[c].promiseId]_vars

\* the timer expired after the handle was acquired, its rejection was
\* ignored, one call is still pending in the registry and a call issued
\* with the handle acquired was dispatched
C36_Witness ==
    /\ ~timerActive
    /\ microtasks = <<>>
    /\ fmProxy.state = "fulfilled"
    /\ DOMAIN callbacksById # {}
    /\ \E c \in Calls :
           /\ calls[c].issuedWhen = "fulfilled"
           /\ InvocationsOf(c) # {}
\* the arguments are a tagged template with as many values as string parts
\* minus one, or a SQL text
ValidSqlArgs(args) ==
    \/ args.sqlOrStrings.t = "str"
    \/ /\ args.sqlOrStrings.t = "template"
       /\ Len(args.bindings) = Len(args.sqlOrStrings.strings) - 1

\* C37: executeSql called with invalid arguments (a tagged template whose
\* number of values differs from the number of string parts minus one, or a
\* first argument that is neither a string nor a template strings array)
\* rejects with an error and changes no state: no call id is generated, no
\* registry entry is added and no host call-entry is invoked.
C37_InvalidSqlArgsReject ==
    [][/\ Len(apiErrors') > Len(apiErrors) =>
              /\ lastPromiseId' = lastPromiseId
              /\ callbacksById' = callbacksById
              /\ hostCalls' = hostCalls
              /\ calls' = calls
              /\ microtasks' = microtasks
       /\ \A k \in 1..Len(apiErrors') :
              apiErrors'[k].api = "executeSql" =>
                  /\ ~ValidSqlArgs(apiErrors'[k].args)
                  /\ apiErrors'[k].error.name = "FMPromiseError"
                  /\ apiErrors'[k].error.code = [t |-> "num", n |-> -1]
       /\ \A c \in 1..Len(calls') :
              calls'[c].api = "executeSql" => ValidSqlArgs(calls'[c].locals)]_vars

\* executeSql was rejected for a tagged template with too few values and
\* for a number as first argument, while a valid call is pending
C37_Witness ==
    /\ \E k \in 1..Len(apiErrors) :
           /\ apiErrors[k].args.sqlOrStrings.t = "template"
           /\ apiErrors[k].args.bindings = <<>>
    /\ \E k \in 1..Len(apiErrors) : apiErrors[k].args.sqlOrStrings.t = "num"
    /\ DOMAIN callbacksById # {}
\* the action of a request is absent or 'read'
ReadRequest(params) ==
    \/ ~(\E k \in 1..Len(params.keys) : params.keys[k] = <<"a", "c", "t", "i", "o", "n">>)
    \/ \E k \in 1..Len(params.keys) :
           /\ params.keys[k] = <<"a", "c", "t", "i", "o", "n">>
           /\ params.vals[k] = [t |-> "str", s |-> <<"r", "e", "a", "d">>]

\* C38: executeFileMakerDataAPIRecords called with an action other than
\* 'read' rejects with an error before anything is dispatched: no call id is
\* generated, no registry entry is added and no host call-entry is invoked;
\* with action 'read' or no action it issues exactly one data call and
\* resolves to that response's flattened records.
C38_RecordsOnlyRead ==
    [][/\ Len(apiErrors') > Len(apiErrors) =>
              /\ lastPromiseId' = lastPromiseId
              /\ callbacksById' = callbacksById
              /\ hostCalls' = hostCalls
              /\ calls' = calls
              /\ microtasks' = microtasks
       /\ \A k \in 1..Len(apiErrors') :
              apiErrors'[k].api = "executeFileMakerDataAPIRecords" =>
                  /\ ~ReadRequest(apiErrors'[k].args)
                  /\ apiErrors'[k].error.name = "FMPromiseError"
       /\ \A c \in 1..Len(calls') :
              calls'[c].api = "executeFileMakerDataAPIRecords" =>
                  /\ ReadRequest(calls'[c].parameter)
                  /\ calls'[c].scriptName
                         = <<"f", "m", "P", "r", "o", "m", "i", "s", "e", ".", "e", "x", "e", "c", "u", "t", "e", "F", "i", "l", "e", "M", "a", "k", "e", "r", "D", "a", "t", "a", "A", "P", "I">>
                  /\ Cardinality({k \in 1..Len(hostCalls') :
                         hostCalls'[k].meta.promiseId = calls'[c].promiseId})
                         = IF calls'[c].pc = "awaitProxy" THEN 0 ELSE 1
                  /\ calls'[c].recordsOutcome.kind = "resolved" =>
                         /\ calls'[c].settle = [kind |-> "fulfilled", text |-> TxtTwoRecords]
                         /\ calls'[c].recordsOutcome.value.items
                                = <<ExpectedFirst, ExpectedSecond>>]_vars


\* a create request was rejected, and a read request and a request without
\* action resolved to the two flattened records
C38_Witness ==
    /\ \E k \in 1..Len(apiErrors) :
           apiErrors[k].api = "executeFileMakerDataAPIRecords"
    /\ \E c, d \in Calls :
           /\ calls[c].parameter.keys # calls[d].parameter.keys
           /\ calls[c].recordsOutcome.kind = "resolved"
           /\ calls[d].recordsOutcome.kind = "resolved"
           /\ Len(calls[c].recordsOutcome.value.items) = 2
\* C32: in the polling strategy, acquisition resolves at the first poll that
\* finds window.FileMaker populated, gives up after a bounded number of
\* unsuccessful polls (at most 101) by failing the handle future, and
\* performs no poll after it has resolved or given up.
C32_PollingBounded ==
    [][polling'.polls > polling.polls =>
           /\ fmProxy.state = "pending"
           /\ polling'.polls <= 101
           /\ windowFileMaker # "none" =>
                  fmProxy' = [state |-> "fulfilled", value |-> windowFileMaker]
           /\ (windowFileMaker = "none" /\ polling'.polls < 101) =>
                  fmProxy'.state = "pending"
           /\ (windowFileMaker = "none" /\ polling'.polls = 101) =>
                  fmProxy'.state = "rejected"]_vars
\* requests to a known route with a method the route does not allow
WrongMethodRequests ==
    { [method |-> <<"P", "O", "S", "T">>, pathname |-> <<"/", "p", "i", "n", "g">>],
      [method |-> <<"P", "O", "S", "T">>, pathname |-> <<"/", "e", "v", "e", "n", "t", "s">>],
      [method |-> <<"P", "O", "S", "T">>, pathname |-> <<"/", "i", "n", "f", "o", "/", "m">>],
      [method |-> <<"G", "E", "T">>, pathname |-> <<"/", "i", "n", "i", "t", "/", "m">>],
      [method |-> <<"P", "O", "S", "T">>, pathname |-> <<"/", "b", "u", "i", "l", "d", "/", "m">>] }

\* C39: development server: a request to a known route (/ping, /events,
\* /info/, /init/, /build/) with a method other than the one the route
\* allows is answered with status 405 and a JSON body with success false,
\* and the route's action (client registration, scaffolding, build) is not
\* performed.
C39_WrongMethod405 ==
    \A k \in 1..Len(responses) :
        [method |-> responses[k].method, pathname |-> responses[k].pathname]
            \in WrongMethodRequests =>
            /\ responses[k].status = 405
            /\ responses[k].contentType = "application/json"
            /\ responses[k].success = "false"
            /\ responses[k].performed = "none"

\* the files of a module by the pathname of its scaffolding request: the
\* reported names and the paths, in the order tsconfig.json, html file,
\* main.ts, style.css
ExpectedTargets(pathname) ==
    CASE pathname = <<"/", "i", "n", "i", "t", "/", "m">> ->
             << [name |-> <<"t", "s", "c", "o", "n", "f", "i", "g", ".", "j", "s", "o", "n">>, path |-> <<"t", "s", "c", "o", "n", "f", "i", "g", ".", "j", "s", "o", "n">>],
                [name |-> <<"i", "n", "d", "e", "x", ".", "h", "t", "m", "l">>, path |-> <<"s", "r", "c", "/", "m", "/", "i", "n", "d", "e", "x", ".", "h", "t", "m", "l">>],
                [name |-> <<"m", "a", "i", "n", ".", "t", "s">>, path |-> <<"s", "r", "c", "/", "m", "/", "m", "a", "i", "n", ".", "t", "s">>],
                [name |-> <<"s", "t", "y", "l", "e", ".", "c", "s", "s">>, path |-> <<"s", "r", "c", "/", "m", "/", "s", "t", "y", "l", "e", ".", "c", "s", "s">>] >>
      [] pathname = <<"/", "i", "n", "i", "t", "/", "m", "/", "B", ".", "H", "T", "M", "L">> ->
             << [name |-> <<"t", "s", "c", "o", "n", "f", "i", "g", ".", "j", "s", "o", "n">>, path |-> <<"t", "s", "c", "o", "n", "f", "i", "g", ".", "j", "s", "o", "n">>],
                [name |-> <<"B", ".", "H", "T", "M", "L">>, path |-> <<"s", "r", "c", "/", "m", "/", "B", ".", "H", "T", "M", "L">>],
                [name |-> <<"m", "a", "i", "n", ".", "t", "s">>, path |-> <<"s", "r", "c", "/", "m", "/", "m", "a", "i", "n", ".", "t", "s">>],
                [name |-> <<"s", "t", "y", "l", "e", ".", "c", "s", "s">>, path |-> <<"s", "r", "c", "/", "m", "/", "s", "t", "y", "l", "e", ".", "c", "s", "s">>] >>

\* how often name is in a list of reported names
TimesIn(names, name) == Cardinality({i \in 1..Len(names) : names[i] = name})

====
